---- MODULE Spec2Model ----
(***************************************************************************)
(* Sparse Merkle Tree state commitment engine and the code that drives it: *)
(*   - the tree engine (insert, delete, get, bulk build),                  *)
(*   - SMT.SetStorage and SMT.SetContractStorage,                          *)
(*   - the intermediate-hashes stage that calls SetStorage.                *)
(* The hash primitive is collision free, so a node hash is modelled by the *)
(* node it is the hash of: two subtrees have the same hash iff they are    *)
(* the same term.                                                          *)
(***************************************************************************)
EXTENDS Integers, Sequences, FiniteSets, TLC

\* Length of a key's bit-path. The engine's keys have 256 bits; the tree
\* algorithms do not depend on the length, and the model walks paths of 3.
KeyBits == 3

\* ------------------------------------------------------------------ bounds
\* Number of tree operations of one behaviour of SpecTree.
MaxOps == 3
\* Number of map entries of one SetStorage call, the three maps together.
MaxEntries == 3

VARIABLES
    root,       \* tree: current root (a node term standing for its hash)
    hist,       \* tree: the operations applied so far, <<key, value>> each
    roots       \* tree: roots[i] is the root after hist[i]

VARIABLES
    caller,             \* "api": SetStorage called directly; "stage": by the stage
    accChanges,         \* SetStorage input: address -> account (or nil)
    codeChanges,        \* SetStorage input: address -> bytecode string
    storageChanges,     \* SetStorage input: address -> (slot string -> value string)
    ssPc,               \* SetStorage: where the call stands
    accPending,         \* SetStorage: addresses the account loop has yet to visit
    codePending,        \* SetStorage: addresses the code loop has yet to visit
    stoPending,         \* SetStorage: addresses the storage loop has yet to visit
    curAddr,            \* SetStorage: address of the inner storage loop
    slotPending,        \* SetStorage: slot strings the inner loop has yet to visit
    keysBatchStorage,   \* SetStorage: keys collected for InsertBatch
    valuesBatchStorage, \* SetStorage: values collected for InsertBatch
    ssErr,              \* SetStorage: the error returned ("none" for nil)
    insertBatchCalled,  \* SetStorage: InsertBatch was invoked
    DbKeySource,        \* store: tree key -> key source
    smtKV,              \* tree: key -> value it holds (0: no leaf)
    ctxDone,            \* the context is cancelled
    cancelledInCall,    \* the context was cancelled while SetStorage ran
    stagePc,            \* stage: where SpawnZkIntermediateHashesStage stands
    shouldIncrement,    \* stage: the increment path was chosen
    batchState,         \* store: "none", "open", "committed" or "rolledback"
    stageErr,           \* stage: the error returned ("none" for nil)
    progressUpdated     \* stage: s.Update(tx, to) was called

treeVars == <<root, hist, roots>>
inputVars == <<caller, accChanges, codeChanges, storageChanges>>
loopVars == <<accPending, codePending, stoPending, curAddr, slotPending>>
batchVars == <<keysBatchStorage, valuesBatchStorage>>
ssVars == <<ssPc, loopVars, batchVars, ssErr, insertBatchCalled>>
storeVars == <<DbKeySource, smtKV, batchState>>
stageVars == <<stagePc, shouldIncrement, stageErr, progressUpdated>>
callVars == <<inputVars, ssVars, storeVars, ctxDone, cancelledInCall, stageVars>>

VARIABLES
    storage,        \* SetContractStorage input: key -> value string
    scsPc,          \* SetContractStorage: where the calling goroutine stands
    seqJ,           \* SetContractStorage: index of the sequential loop
    spawnI,         \* SetContractStorage: i of the loop that starts the goroutines
    wgCounter,      \* sync.WaitGroup: goroutines yet to call Done
    wPc,            \* worker -> "unborn", "loop" or "done"
    wJ,             \* worker -> j of its loop
    wCount,         \* worker -> count of its loop
    keyArray,       \* worker -> its buffer of keys
    cVArray,        \* worker -> its buffer of node values
    hashArray,      \* worker -> its buffer of value hashes
    scsErr,         \* the err variable declared before the goroutines start
    chm,            \* key -> node value
    vhm,            \* key -> value hash
    mergeI,         \* i of the merge loop
    mergeJ,         \* j of the merge loop
    scsReturn,      \* "none", "root" or "error": what SetContractStorage returned
    fanOutWrites,   \* <<worker, location>>: the writes of the running workers
    mapWriters      \* the goroutines that wrote chm or vhm

workerVars == <<wPc, wJ, wCount>>
bufferVars == <<keyArray, cVArray, hashArray>>
mapVars == <<chm, vhm, mapWriters>>
mergeVars == <<mergeI, mergeJ>>
scsVars == <<storage, scsPc, seqJ, spawnI, wgCounter, workerVars, bufferVars, scsErr,
             mapVars, mergeVars, scsReturn, fanOutWrites>>

VARIABLES
    memDb,          \* MemDb: the five maps, LastRoot and Depth
    mdLock,         \* MemDb.lock: the readers and the writer that hold it
    mdThread,       \* thread -> the MemDb method it is in, its argument and last result
    mdOps,          \* number of MemDb methods called so far
    mdBatchPre,     \* MemDb as it was when the last batching method was called
    mdLastOp,       \* the MemDb method that returned last
    mdCodesAdded    \* the bytecodes AddCode has stored

memVars == <<memDb, mdLock, mdThread, mdOps, mdBatchPre, mdLastOp, mdCodesAdded>>

\* no MemDb is in use
MemIdle ==
    /\ memDb = <<>>
    /\ mdLock = <<>>
    /\ mdThread = <<>>
    /\ mdOps = 0
    /\ mdBatchPre = <<>>
    /\ mdLastOp = "none"
    /\ mdCodesAdded = {}

\* The sizing of one worker's output buffers in SetContractStorage.
VARIABLES
    bfN,            \* storageKeyCount
    bfC,            \* cpuNum
    bfI,            \* cpuI, the worker looked at
    bfLen,          \* length of the worker's buffers (operationsPerCpu)
    bfJ,            \* the worker's loop index j
    bfCount,        \* the worker's count
    bfPc,           \* "idle", "loop", "done", "panic"
    bfOverrun       \* a write at an index past the end of the buffer happened

bufVars == <<bfN, bfC, bfI, bfLen, bfJ, bfCount, bfPc, bfOverrun>>

BufIdle ==
    /\ bfN = 0 /\ bfC = 0 /\ bfI = 0 /\ bfLen = 0 /\ bfJ = 0 /\ bfCount = 0
    /\ bfPc = "idle" /\ bfOverrun = FALSE

\* The access-control lists of the tx pool.
VARIABLES
    aclMode,        \* the mode stored in the ACL database
    aclTable,       \* list name -> the (address, policy) pairs the list holds
    aclOps,         \* number of ACL calls so far
    aclLast,        \* the last ACL call and what it returned
    aclAdded,       \* the (list, address, policy) triples AddPolicy has accepted
    aclModeSet      \* the mode of the last SetMode that was accepted

aclVars == <<aclMode, aclTable, aclOps, aclLast, aclAdded, aclModeSet>>

AclIdle ==
    /\ aclMode = "none" /\ aclTable = <<>> /\ aclOps = 0 /\ aclLast = <<>>
    /\ aclAdded = {} /\ aclModeSet = "none"

\* One call of ShouldRejectLowGasPrice.
VARIABLES
    gpTxPrice,      \* txPrice
    gpLowest,       \* lowestAllowed as the caller passed it
    gpTolerance,    \* rejectLowGasPriceTolerance, in thousandths
    gpPc,           \* "idle", "called", "returned"
    gpRejected,     \* the value returned
    gpLowestAfter   \* lowestAllowed after the call

gasVars == <<gpTxPrice, gpLowest, gpTolerance, gpPc, gpRejected, gpLowestAfter>>

GasIdle ==
    /\ gpTxPrice = 0 /\ gpLowest = 0 /\ gpTolerance = 0 /\ gpPc = "idle"
    /\ gpRejected = FALSE /\ gpLowestAfter = 0

\* One call of SendRawTransaction.
VARIABLES
    txIn,           \* the transaction, the configuration of the API and what its calls return
    txPc,           \* "idle", "called", "returned"
    txOut           \* what the call returned and whether it handed the transaction on

txVars == <<txIn, txPc, txOut>>

TxIdle == txIn = <<>> /\ txPc = "idle" /\ txOut = <<>>

\* A BatchesProcessor, the databases it writes and the calls it has made.
VARIABLES
    bp,             \* the fields of the BatchesProcessor
    bpDb,           \* the tables of ErigonDb and HermezDb the processor reads and writes
    bpLog,          \* the calls made so far: unwindFn, WriteHeader, WriteBody
    bpRet,          \* the last ProcessEntry: type, block and batch number of its entry, return values
    bpCalls         \* number of ProcessEntry calls so far

bpVars == <<bp, bpDb, bpLog, bpRet, bpCalls>>

BpIdle == bp = <<>> /\ bpDb = <<>> /\ bpLog = <<>> /\ bpRet = <<>> /\ bpCalls = 0

\* One run of SpawnZkIntermediateHashesStage, seen from its caller.
VARIABLES
    spCfg,          \* the configuration, the stage state and the header of block `to`
    spPc,           \* "idle", "start", "path", "checkRoot", "finish", "returned"
    spCalls,        \* the calls made so far: OpenBatch, RollbackBatch, CommitBatch, Update, Commit
    spOut           \* the computed root, the error, the stage progress in the transaction

runVars == <<spCfg, spPc, spCalls, spOut>>

RunIdle == spCfg = <<>> /\ spPc = "idle" /\ spCalls = <<>> /\ spOut = <<>>

\* One call of SequencerBatchStreamWriter.writeBlockDetailsToDatastream.
VARIABLES
    dsBundles,      \* verifiedBundles
    dsPc,           \* "idle", "loop", "returned"
    dsNext,         \* index of the bundle the loop visits next
    dsChecked,      \* checkedVerifierBundles, as indices of verifiedBundles
    dsStream,       \* the datastream: highest started and closed batch, entries written
    dsProgress,     \* the DataStream stage progress
    dsErr           \* the error returned ("nil" for none)

dsVars == <<dsBundles, dsPc, dsNext, dsChecked, dsStream, dsProgress, dsErr>>

DsIdle ==
    /\ dsBundles = <<>> /\ dsPc = "idle" /\ dsNext = 0 /\ dsChecked = <<>>
    /\ dsStream = <<>> /\ dsProgress = 0 /\ dsErr = "nil"

laterVars == <<memVars, bufVars, aclVars, gasVars, txVars, bpVars, runVars, dsVars>>
LaterIdle == MemIdle /\ BufIdle /\ AclIdle /\ GasIdle /\ TxIdle /\ BpIdle /\ RunIdle /\ DsIdle

vars == <<treeVars, callVars, scsVars, laterVars>>

\* no call of SetContractStorage is under way
ScsIdle ==
    /\ storage = <<>>
    /\ scsPc = "idle"
    /\ seqJ = 0
    /\ spawnI = 0
    /\ wgCounter = 0
    /\ wPc = <<>>
    /\ wJ = <<>>
    /\ wCount = <<>>
    /\ keyArray = <<>>
    /\ cVArray = <<>>
    /\ hashArray = <<>>
    /\ scsErr = "nil"
    /\ chm = <<>>
    /\ vhm = <<>>
    /\ mergeI = 0
    /\ mergeJ = 0
    /\ scsReturn = "none"
    /\ fanOutWrites = {}
    /\ mapWriters = {}

\* ------------------------------------------------------------- node model
RECURSIVE BitPaths(_)
BitPaths(n) ==
    IF n = 0 THEN {<<>>}
    ELSE {<<b>> \o p : b \in {0, 1}, p \in BitPaths(n - 1)}

Keys == BitPaths(KeyBits)
\* the values a tree operation writes; 0 is the "no entry" sentinel
Values == {0, 1, 2}

EmptyNode == <<"E", <<>>, <<>>>>
LeafNode(rem, v) == <<"L", rem, <<v>>>>
BranchNode(l, r) == <<"B", l, r>>

IsEmpty(t) == t[1] = "E"
IsLeaf(t) == t[1] = "L"
IsBranch(t) == t[1] = "B"
LeafRem(t) == t[2]
LeafVal(t) == t[3][1]
Left(t) == t[2]
Right(t) == t[3]

\* ------------------------------------------------------------ tree engine
\* a split that puts the new leaf on the left whatever its bit
RECURSIVE SplitLeafNewLeft(_, _, _, _)
SplitLeafNewLeft(remOld, vOld, remNew, vNew) ==
    IF remOld[1] = remNew[1]
    THEN LET sub == SplitLeafNewLeft(Tail(remOld), vOld, Tail(remNew), vNew)
         IN IF remNew[1] = 0 THEN BranchNode(sub, EmptyNode)
                             ELSE BranchNode(EmptyNode, sub)
    ELSE BranchNode(LeafNode(Tail(remNew), vNew), LeafNode(Tail(remOld), vOld))

\* insert into a leaf slot holding another key: a chain of branches with one
\* empty side down to the first differing bit, where the two leaves part
RECURSIVE SplitLeaf(_, _, _, _)
SplitLeaf(remOld, vOld, remNew, vNew) ==
    IF remOld[1] = remNew[1]
    THEN LET sub == SplitLeaf(Tail(remOld), vOld, Tail(remNew), vNew)
         IN IF remNew[1] = 0 THEN BranchNode(sub, EmptyNode)
                             ELSE BranchNode(EmptyNode, sub)
    ELSE LET old == LeafNode(Tail(remOld), vOld)
             new == LeafNode(Tail(remNew), vNew)
         IN IF remNew[1] = 0 THEN BranchNode(new, old)
                             ELSE BranchNode(old, new)

\* the collapse without the promotion: a branch with one empty child and one
\* leaf child is left standing
CollapseKeepsLeaf(l, r) ==
    IF IsEmpty(l) /\ IsEmpty(r) THEN EmptyNode ELSE BranchNode(l, r)

\* a branch after a delete below it: both sides empty collapse away, a lone
\* leaf is re-homed at the branch's depth with the branch's bit put back in
\* front of its remaining key, a surviving branch child stays where it is
Collapse(l, r) ==
    IF IsEmpty(l) /\ IsEmpty(r) THEN EmptyNode
    ELSE IF IsEmpty(l) /\ IsLeaf(r) THEN LeafNode(<<1>> \o LeafRem(r), LeafVal(r))
    ELSE IF IsEmpty(r) /\ IsLeaf(l) THEN LeafNode(<<0>> \o LeafRem(l), LeafVal(l))
    ELSE BranchNode(l, r)

\* an insert whose delete rewrites the branches above the deleted leaf as
\* they stand, without the collapse
RECURSIVE InsertAtNoCollapse(_, _, _)
InsertAtNoCollapse(t, rem, v) ==
    IF IsEmpty(t) THEN
        IF v = 0 THEN t ELSE LeafNode(rem, v)
    ELSE IF IsLeaf(t) THEN
        IF LeafRem(t) = rem
        THEN IF v = 0 THEN EmptyNode ELSE LeafNode(rem, v)
        ELSE IF v = 0 THEN t
        ELSE SplitLeaf(LeafRem(t), LeafVal(t), rem, v)
    ELSE
        LET l == IF rem[1] = 0 THEN InsertAtNoCollapse(Left(t), Tail(rem), v) ELSE Left(t)
            r == IF rem[1] = 1 THEN InsertAtNoCollapse(Right(t), Tail(rem), v) ELSE Right(t)
        IN BranchNode(l, r)

\* insert (rem, v) below the node t, rem being the key bits below t's depth;
\* v = 0 deletes
RECURSIVE InsertAt(_, _, _)
InsertAt(t, rem, v) ==
    IF IsEmpty(t) THEN
        IF v = 0 THEN t ELSE LeafNode(rem, v)
    ELSE IF IsLeaf(t) THEN
        IF LeafRem(t) = rem
        THEN IF v = 0 THEN EmptyNode ELSE LeafNode(rem, v)
        ELSE IF v = 0 THEN t
        ELSE SplitLeaf(LeafRem(t), LeafVal(t), rem, v)
    ELSE
        LET l == IF rem[1] = 0 THEN InsertAt(Left(t), Tail(rem), v) ELSE Left(t)
            r == IF rem[1] = 1 THEN InsertAt(Right(t), Tail(rem), v) ELSE Right(t)
        IN IF v = 0 THEN Collapse(l, r) ELSE BranchNode(l, r)

SmtInsert(t, key, v) == InsertAt(t, key, v)

SmtDelete(t, key) == SmtInsert(t, key, 0)

\* a lookup that takes whatever leaf the walk ends at for the key's leaf
RECURSIVE GetNoKeyCheck(_, _)
GetNoKeyCheck(t, rem) ==
    IF IsEmpty(t) THEN 0
    ELSE IF IsLeaf(t) THEN LeafVal(t)
    ELSE IF rem[1] = 0 THEN GetNoKeyCheck(Left(t), Tail(rem))
    ELSE GetNoKeyCheck(Right(t), Tail(rem))

RECURSIVE GetAt(_, _)
GetAt(t, rem) ==
    IF IsEmpty(t) THEN 0
    ELSE IF IsLeaf(t) THEN (IF LeafRem(t) = rem THEN LeafVal(t) ELSE 0)
    ELSE IF rem[1] = 0 THEN GetAt(Left(t), Tail(rem))
    ELSE GetAt(Right(t), Tail(rem))

SmtGet(t, key) == GetAt(t, key)

\* a bulk build that partitions down to the last bit, a single entry too
RECURSIVE BuildToFullDepth(_)
BuildToFullDepth(S) ==
    IF S = {} THEN EmptyNode
    ELSE IF \E e \in S : e[1] = <<>> THEN
        LET e == CHOOSE x \in S : TRUE IN LeafNode(e[1], e[2])
    ELSE BranchNode(BuildToFullDepth({<<Tail(e[1]), e[2]>> : e \in {x \in S : x[1][1] = 0}}),
                    BuildToFullDepth({<<Tail(e[1]), e[2]>> : e \in {x \in S : x[1][1] = 1}}))

\* bulk build over a set of <<remaining key, value>> entries: partition on
\* the leading bit, one entry makes a leaf, two or more make a branch
RECURSIVE BuildAt(_)
BuildAt(S) ==
    IF S = {} THEN EmptyNode
    ELSE IF Cardinality(S) = 1 THEN
        LET e == CHOOSE x \in S : TRUE IN LeafNode(e[1], e[2])
    ELSE BranchNode(BuildAt({<<Tail(e[1]), e[2]>> : e \in {x \in S : x[1][1] = 0}}),
                    BuildAt({<<Tail(e[1]), e[2]>> : e \in {x \in S : x[1][1] = 1}}))

GenerateFromKVBulk(S) == BuildAt(S)

\* ------------------------------------------------- tree: history helpers
\* the history entry of a regeneration carries this in place of a key
BulkMark == <<>>

\* the value the history leaves at key k: that of the last operation on k
RECURSIVE LastValue(_, _)
LastValue(h, k) ==
    IF h = <<>> THEN 0
    ELSE IF h[Len(h)][1] = k THEN h[Len(h)][2]
    ELSE LastValue(SubSeq(h, 1, Len(h) - 1), k)

\* the (key, non-zero value) pairs the history leaves in the tree
Content(h) == {<<k, LastValue(h, k)>> : k \in {x \in Keys : LastValue(h, x) # 0}}

\* every operation of the history is an insert at a key of its own
DistinctInserts(h) ==
    /\ \A i \in 1..Len(h) : h[i][1] \in Keys
    /\ \A i, j \in 1..Len(h) : i # j => h[i][1] # h[j][1]

\* keys as numbers, to insert a set of pairs in a fixed order
RECURSIVE KeyNum(_)
KeyNum(k) == IF k = <<>> THEN 0 ELSE 2 * KeyNum(SubSeq(k, 1, Len(k) - 1)) + k[Len(k)]

RECURSIVE InsertAscending(_, _)
InsertAscending(t, S) ==
    IF S = {} THEN t
    ELSE LET e == CHOOSE x \in S : \A y \in S : KeyNum(x[1]) <= KeyNum(y[1])
         IN InsertAscending(SmtInsert(t, e[1], e[2]), S \ {e})

\* the SetStorage caller and the stage at rest
CallIdle ==
    /\ caller = "api"
    /\ accChanges = <<>>
    /\ codeChanges = <<>>
    /\ storageChanges = <<>>
    /\ ssPc = "idle"
    /\ accPending = {}
    /\ codePending = {}
    /\ stoPending = {}
    /\ curAddr = ""
    /\ slotPending = {}
    /\ keysBatchStorage = <<>>
    /\ valuesBatchStorage = <<>>
    /\ ssErr = "none"
    /\ insertBatchCalled = FALSE
    /\ DbKeySource = <<>>
    /\ smtKV = <<>>
    /\ ctxDone = FALSE
    /\ cancelledInCall = FALSE
    /\ stagePc = "none"
    /\ shouldIncrement = FALSE
    /\ batchState = "none"
    /\ stageErr = "none"
    /\ progressUpdated = FALSE

\* ------------------------------------------------------- tree: actions
InitTreeVars ==
    /\ root = EmptyNode
    /\ hist = <<>>
    /\ roots = <<>>

InitTree == InitTreeVars /\ CallIdle /\ ScsIdle /\ LaterIdle

Record(k, v, t) ==
    /\ UNCHANGED <<callVars, scsVars, laterVars>>
    /\ root' = t
    /\ hist' = Append(hist, <<k, v>>)
    /\ roots' = Append(roots, t)

Insert(k, v) ==
    /\ Len(hist) < MaxOps
    /\ Record(k, v, SmtInsert(root, k, v))

Delete(k) ==
    /\ Len(hist) < MaxOps
    /\ Record(k, 0, SmtDelete(root, k))

\* regeneration: the tree is rebuilt from the pairs it holds
Regenerate ==
    /\ Len(hist) < MaxOps
    /\ Len(hist) > 0
    /\ Record(BulkMark, 0, GenerateFromKVBulk(Content(hist)))

NextTree ==
    \/ \E k \in Keys, v \in Values : Insert(k, v)
    \/ \E k \in Keys : Delete(k)
    \/ Regenerate

SpecTree == InitTree /\ [][NextTree]_vars

\* ------------------------------------------------------- tree: claims
RootBefore(i) == IF i = 1 THEN EmptyNode ELSE roots[i - 1]
HistPairs == {hist[i] : i \in 1..Len(hist)}
KeysOf(h) == [i \in 1..Len(h) |-> KeyNum(h[i][1])]

RECURSIVE HasChain(_)
HasChain(t) ==
    /\ IsBranch(t)
    /\ \/ IsEmpty(Left(t)) /\ IsBranch(Right(t))
       \/ IsEmpty(Right(t)) /\ IsBranch(Left(t))
       \/ HasChain(Left(t))
       \/ HasChain(Right(t))

\* C1: pairs with distinct keys inserted one at a time into an empty tree
\* give the root that inserting the same pairs in ascending key order gives,
\* whatever the order they were inserted in.
C1_OrderIndependence ==
    DistinctInserts(hist) => root = InsertAscending(EmptyNode, HistPairs)

C1_Witness ==
    /\ DistinctInserts(hist)
    /\ Len(hist) = 3
    /\ \A i \in 1..3 : hist[i][2] # 0
    /\ KeysOf(hist)[1] > KeysOf(hist)[2]
    /\ KeysOf(hist)[2] > KeysOf(hist)[3]
    /\ HasChain(root)

\* hist[i-1], hist[i] are insert(k, v) with k absent and v # 0, then delete(k)
IsRoundTrip(i) ==
    /\ i \in 2..Len(hist)
    /\ hist[i - 1][1] \in Keys
    /\ hist[i - 1][2] # 0
    /\ LastValue(SubSeq(hist, 1, i - 2), hist[i - 1][1]) = 0
    /\ hist[i] = <<hist[i - 1][1], 0>>

\* C2: insert(k, v) of an absent key with v # 0 followed by delete(k) gives
\* back the root the tree had before the insert.
C2_InsertDeleteRoundTrip ==
    \A i \in 2..Len(hist) : IsRoundTrip(i) => roots[i] = RootBefore(i - 1)

C2_Witness ==
    /\ Len(hist) = 3
    /\ IsRoundTrip(3)
    /\ IsLeaf(roots[1])
    /\ HasChain(roots[2])
    /\ root = roots[1]

\* C3: the bulk build of a set of (key, non-zero value) pairs with distinct
\* keys gives the root that inserting the pairs one by one gives, in any order.
C3_BulkEqualsIncremental ==
    (DistinctInserts(hist) /\ \A i \in 1..Len(hist) : hist[i][2] # 0)
        => GenerateFromKVBulk(HistPairs) = root

C3_Witness ==
    /\ DistinctInserts(hist)
    /\ Len(hist) = 3
    /\ \A i \in 1..3 : hist[i][2] # 0
    /\ KeysOf(hist)[1] > KeysOf(hist)[2]
    /\ HasChain(root)
    /\ GenerateFromKVBulk(HistPairs) = root

\* C4: get(k) is the value of the last insert at k, zero when k was never
\* inserted or was deleted since; operations on other keys do not change it.
C4_LookupSemantics ==
    \A k \in Keys : SmtGet(root, k) = LastValue(hist, k)

C4_Witness ==
    /\ Len(hist) = 3
    /\ hist[1][1] = hist[2][1]
    /\ hist[1][2] # 0
    /\ hist[2][2] # 0
    /\ hist[1][2] # hist[2][2]
    /\ hist[3][1] \in Keys
    /\ hist[3][1] # hist[2][1]
    /\ SmtGet(root, hist[2][1]) = hist[2][2]
    /\ \E k \in Keys : LastValue(hist, k) = 0 /\ ~IsEmpty(root) /\ SmtGet(root, k) = 0

\* every branch above depth KeyBits - 1 has two non-empty children, or one
\* non-empty child that is a branch
RECURSIVE Compressed(_, _)
Compressed(t, depth) ==
    IsBranch(t) =>
        /\ depth < KeyBits - 1 =>
              /\ ~(IsEmpty(Left(t)) /\ IsEmpty(Right(t)))
              /\ ~(IsEmpty(Left(t)) /\ IsLeaf(Right(t)))
              /\ ~(IsEmpty(Right(t)) /\ IsLeaf(Left(t)))
        /\ Compressed(Left(t), depth + 1)
        /\ Compressed(Right(t), depth + 1)

\* C5: after any sequence of inserts and deletes no branch above the last
\* level has both children empty, or one empty child and one leaf child.
C5_PathCompression == Compressed(root, 0)

C5_Witness ==
    /\ Len(hist) = 3
    /\ hist[3][2] = 0
    /\ HasChain(roots[2])
    /\ IsLeaf(root)
    /\ Len(LeafRem(root)) = KeyBits

\* ================================================================ SetStorage
\* Strings are sequences of characters.
HexPrefixed(s) == Len(s) >= 2 /\ s[1] = "0" /\ s[2] = "x"
TrimHexPrefix(s) == IF HexPrefixed(s) THEN SubSeq(s, 3, Len(s)) ELSE s

DigitValue(c) ==
    CASE c = "0" -> 0 [] c = "1" -> 1 [] c = "2" -> 2 [] c = "3" -> 3
      [] c = "4" -> 4 [] c = "5" -> 5 [] c = "6" -> 6 [] c = "7" -> 7
      [] c = "8" -> 8 [] c = "9" -> 9 [] c = "a" -> 10 [] c = "b" -> 11
      [] c = "c" -> 12 [] c = "d" -> 13 [] c = "e" -> 14 [] c = "f" -> 15
      [] OTHER -> 16

\* big.Int.SetString(digits, base); the model's strings are well formed
RECURSIVE SetString(_, _)
SetString(digits, base) ==
    IF digits = <<>> THEN 0
    ELSE base * SetString(SubSeq(digits, 1, Len(digits) - 1), base)
         + DigitValue(digits[Len(digits)])

convertStringToBigInt(v) ==
    IF HexPrefixed(v) THEN SetString(TrimHexPrefix(v), 16) ELSE SetString(v, 10)

\* utils.StrValToBigInt, as convertStringToBigInt reads a string
StrValToBigInt(k) == convertStringToBigInt(k)

\* values of 2^8 and more stand for values that exceed the field
ScalarLimit == 256
NodeValue8Fits(x) == x < ScalarLimit
IsZero(x) == x = 0

\* leaf kinds
KEY_BALANCE == 0
KEY_NONCE == 1
SC_CODE == 2
SC_STORAGE == 3
SC_LENGTH == 4

\* the key hash is collision free: a key stands for the tuple it hashes
NodeKey(kind, addr, slot) == <<kind, addr, slot>>
KeyEthAddrBalance(addr) == NodeKey(KEY_BALANCE, addr, 0)
KeyEthAddrNonce(addr) == NodeKey(KEY_NONCE, addr, 0)
KeyContractCode(addr) == NodeKey(SC_CODE, addr, 0)
KeyContractLength(addr) == NodeKey(SC_LENGTH, addr, 0)
KeyContractStorage(addr, k) == NodeKey(SC_STORAGE, addr, StrValToBigInt(k))

EncodeKeySource(kind, addr, slot) == [kind |-> kind, address |-> addr, position |-> slot]
NoKeySource == [kind |-> -1, address |-> "", position |-> 0]

\* the bytecode hash: not zero, and different for the codes of the model
HashContractBytecodeBigInt(code) == 200 + Len(code)

convertBytecodeToBigInt(bytecode) ==
    LET trimmed == TrimHexPrefix(bytecode)
        parsed == IF Len(trimmed) % 2 # 0 THEN <<"0">> \o trimmed ELSE trimmed
    IN IF Len(bytecode) = 0
       THEN [bi |-> 0, length |-> 0]
       ELSE [bi |-> HashContractBytecodeBigInt(bytecode), length |-> Len(parsed) \div 2]

\* ------------------------------------------------------------- input sets
Addrs == {"a1", "a2"}
NilAccount == [nil |-> TRUE, Balance |-> 0, Nonce |-> 0]
Account(b, n) == [nil |-> FALSE, Balance |-> b, Nonce |-> n]
AccountValues == {NilAccount, Account(5, 0), Account(0, 1)}
CodeStrings == {<<>>, <<"0", "x", "6", "0", "0", "1">>}
SlotStrings == {<<"0", "x", "1">>, <<"0", "x", "0", "1">>, <<"0", "x", "0", "2">>}
ValueStrings == {<<"0", "x", "0", "0">>, <<"0", "x", "0", "5">>, <<"0", "x", "1", "0", "0">>}
SlotNumbers == {StrValToBigInt(k) : k \in SlotStrings}

AllKeys ==
    {NodeKey(kind, a, 0) : kind \in {KEY_BALANCE, KEY_NONCE, SC_CODE, SC_LENGTH}, a \in Addrs}
        \cup {NodeKey(SC_STORAGE, a, n) : a \in Addrs, n \in SlotNumbers}

PartialMaps(D, R) == UNION {[S -> R] : S \in SUBSET D}
StorageMaps == PartialMaps(SlotStrings, ValueStrings) \ {<<>>}

RECURSIVE SumOver(_, _)
SumOver(f, S) ==
    IF S = {} THEN 0
    ELSE LET x == CHOOSE y \in S : TRUE IN f[x] + SumOver(f, S \ {x})

\* number of map entries of a call's three inputs
EntryCount(acc, code, sto) ==
    Cardinality(DOMAIN acc) + Cardinality(DOMAIN code)
        + SumOver([a \in DOMAIN sto |-> Cardinality(DOMAIN sto[a])], DOMAIN sto)

\* ------------------------------------------------------- store at the start
\* Address a1 has been written before: its keys hold values and key sources.
\* Address a2 is new.
InitialContent ==
    [k \in AllKeys |-> IF k[2] = "a1" THEN 9 ELSE 0]

InitialKeySource ==
    [k \in AllKeys |-> IF k[2] = "a1" THEN EncodeKeySource(k[1], k[2], k[3]) ELSE NoKeySource]

\* --------------------------------------------------- SetStorage: loop bodies
appendToValuesBatchStorageBigInt(values, value) ==
    IF NodeValue8Fits(value)
    THEN [values |-> Append(values, value), isDelete |-> IsZero(value), err |-> "none"]
    ELSE [values |-> <<>>, isDelete |-> FALSE, err |-> "invalid"]

\* st: the call's batch slices, the store's key sources and the error so far
CallState(keys, values, ks) == [keys |-> keys, values |-> values, ks |-> ks, err |-> "none"]

\* as PutKey, with the key source written for a zero value too
PutKeyAlwaysInserts(st, key, value, kind, addr, slot) ==
    IF st.err # "none" THEN st
    ELSE LET r == appendToValuesBatchStorageBigInt(st.values, value)
         IN IF r.err # "none"
            THEN [st EXCEPT !.keys = Append(@, key), !.err = r.err]
            ELSE [st EXCEPT !.keys = Append(@, key),
                            !.values = r.values,
                            !.ks = [@ EXCEPT ![key] = EncodeKeySource(kind, addr, slot)]]

\* append the key and its value to the batch; InsertKeySource for a value
\* that is not zero, DeleteKeySource for zero; an error ends the call
PutKey(st, key, value, kind, addr, slot) ==
    IF st.err # "none" THEN st
    ELSE LET r == appendToValuesBatchStorageBigInt(st.values, value)
         IN IF r.err # "none"
            THEN [st EXCEPT !.keys = Append(@, key), !.err = r.err]
            ELSE [st EXCEPT !.keys = Append(@, key),
                            !.values = r.values,
                            !.ks = IF r.isDelete
                                   THEN [@ EXCEPT ![key] = NoKeySource]
                                   ELSE [@ EXCEPT ![key] = EncodeKeySource(kind, addr, slot)]]

\* an account body that files the nonce under the balance key
AccountBodyNonceAtBalanceKey(st, addr, acc) ==
    LET balance == IF acc.nil THEN 0 ELSE acc.Balance
        nonce == IF acc.nil THEN 0 ELSE acc.Nonce
        st1 == PutKey(st, KeyEthAddrBalance(addr), balance, KEY_BALANCE, addr, 0)
    IN PutKey(st1, KeyEthAddrBalance(addr), nonce, KEY_NONCE, addr, 0)

AccountBody(st, addr, acc) ==
    LET balance == IF acc.nil THEN 0 ELSE acc.Balance
        nonce == IF acc.nil THEN 0 ELSE acc.Nonce
        st1 == PutKey(st, KeyEthAddrBalance(addr), balance, KEY_BALANCE, addr, 0)
    IN PutKey(st1, KeyEthAddrNonce(addr), nonce, KEY_NONCE, addr, 0)

CodeBody(st, addr, code) ==
    LET c == convertBytecodeToBigInt(code)
        st1 == PutKey(st, KeyContractCode(addr), c.bi, SC_CODE, addr, 0)
    IN PutKey(st1, KeyContractLength(addr), c.length, SC_LENGTH, addr, 0)

SlotBody(st, addr, k, v) ==
    PutKey(st, KeyContractStorage(addr, k), convertStringToBigInt(v),
           SC_STORAGE, addr, StrValToBigInt(k))

\* the loop the call is in once the given addresses are left to visit
PhaseAfter(accP, codeP, stoP) ==
    IF accP # {} THEN "acc"
    ELSE IF codeP # {} THEN "code"
    ELSE IF stoP # {} THEN "storage"
    ELSE "insertBatch"

\* --------------------------------------------------- SetStorage: steps
\* entry: nothing to do for three empty maps
EnterSetStorage ==
    /\ UNCHANGED <<batchVars, insertBatchCalled, curAddr, slotPending>>
    /\ IF DOMAIN accChanges = {} /\ DOMAIN codeChanges = {} /\ DOMAIN storageChanges = {}
       THEN /\ ssPc' = "returned"
            /\ ssErr' = "none"
            /\ UNCHANGED <<accPending, codePending, stoPending>>
       ELSE /\ accPending' = DOMAIN accChanges
            /\ codePending' = DOMAIN codeChanges
            /\ stoPending' = DOMAIN storageChanges
            /\ ssPc' = PhaseAfter(DOMAIN accChanges, DOMAIN codeChanges, DOMAIN storageChanges)
            /\ UNCHANGED ssErr

SetStorageCall ==
    /\ caller = "api"
    /\ ssPc = "idle"
    /\ EnterSetStorage
    /\ UNCHANGED <<treeVars, scsVars, laterVars, inputVars, storeVars, ctxDone, cancelledInCall, stageVars>>

ReturnError(e) ==
    /\ ssPc' = "returned"
    /\ ssErr' = e

\* the result of a loop body: the slices and key sources, and the error if any
Commit(st, nextPc) ==
    /\ keysBatchStorage' = st.keys
    /\ valuesBatchStorage' = st.values
    /\ DbKeySource' = st.ks
    /\ IF st.err # "none"
       THEN ReturnError(st.err)
       ELSE ssPc' = nextPc /\ UNCHANGED ssErr

Here == CallState(keysBatchStorage, valuesBatchStorage, DbKeySource)

AccountIteration(addr) ==
    /\ ssPc = "acc"
    /\ addr \in accPending
    /\ accPending' = accPending \ {addr}
    /\ IF ctxDone
       THEN ReturnError("cancelled") /\ UNCHANGED <<batchVars, DbKeySource>>
       ELSE Commit(AccountBody(Here, addr, accChanges[addr]),
                   PhaseAfter(accPending \ {addr}, codePending, stoPending))
    /\ UNCHANGED <<treeVars, scsVars, laterVars, inputVars, codePending, stoPending, curAddr, slotPending,
                   insertBatchCalled, smtKV, batchState, ctxDone, cancelledInCall, stageVars>>

CodeIteration(addr) ==
    /\ ssPc = "code"
    /\ addr \in codePending
    /\ codePending' = codePending \ {addr}
    /\ IF ctxDone
       THEN ReturnError("cancelled") /\ UNCHANGED <<batchVars, DbKeySource>>
       ELSE Commit(CodeBody(Here, addr, codeChanges[addr]),
                   PhaseAfter({}, codePending \ {addr}, stoPending))
    /\ UNCHANGED <<treeVars, scsVars, laterVars, inputVars, accPending, stoPending, curAddr, slotPending,
                   insertBatchCalled, smtKV, batchState, ctxDone, cancelledInCall, stageVars>>

\* an iteration of the outer storage loop: the check of the context, then the
\* inner loop over the address's slots starts
StorageIteration(addr) ==
    /\ ssPc = "storage"
    /\ addr \in stoPending
    /\ stoPending' = stoPending \ {addr}
    /\ IF ctxDone
       THEN ReturnError("cancelled") /\ UNCHANGED <<curAddr, slotPending>>
       ELSE /\ curAddr' = addr
            /\ slotPending' = DOMAIN storageChanges[addr]
            /\ ssPc' = "slots"
            /\ UNCHANGED ssErr
    /\ UNCHANGED <<treeVars, scsVars, laterVars, inputVars, accPending, codePending, batchVars,
                   insertBatchCalled, storeVars, ctxDone, cancelledInCall, stageVars>>

\* an iteration of the inner storage loop; it does not look at the context
SlotIteration(k) ==
    /\ ssPc = "slots"
    /\ k \in slotPending
    /\ slotPending' = slotPending \ {k}
    /\ Commit(SlotBody(Here, curAddr, k, storageChanges[curAddr][k]),
              IF slotPending \ {k} # {} THEN "slots" ELSE PhaseAfter({}, {}, stoPending))
    /\ UNCHANGED <<treeVars, scsVars, laterVars, inputVars, accPending, codePending, stoPending, curAddr,
                   insertBatchCalled, smtKV, batchState, ctxDone, cancelledInCall, stageVars>>

\* the batch as a key -> value mapping: of two entries with the same key the
\* later one stands
RECURSIVE ApplyBatch(_, _, _)
ApplyBatch(keys, values, kv) ==
    IF keys = <<>> THEN kv
    ELSE ApplyBatch(Tail(keys), Tail(values), [kv EXCEPT ![Head(keys)] = Head(values)])

\* InsertBatch is handed the context: a cancelled context may make it fail
InsertBatch ==
    /\ ssPc = "insertBatch"
    /\ insertBatchCalled' = TRUE
    /\ ssPc' = "returned"
    /\ \/ /\ smtKV' = ApplyBatch(keysBatchStorage, valuesBatchStorage, smtKV)
          /\ ssErr' = "none"
       \/ /\ ctxDone
          /\ ssErr' = "cancelled"
          /\ UNCHANGED smtKV
    /\ UNCHANGED <<treeVars, scsVars, laterVars, inputVars, loopVars, batchVars, DbKeySource, batchState,
                   ctxDone, cancelledInCall, stageVars>>

SetStorageRunning == ssPc \in {"acc", "code", "storage", "slots", "insertBatch"}

\* the caller's context is cancelled
Cancel ==
    /\ ~ctxDone
    /\ ssPc # "returned"
    /\ stagePc \in {"none", "start", "increment"}
    /\ ctxDone' = TRUE
    /\ cancelledInCall' = SetStorageRunning
    /\ UNCHANGED <<treeVars, scsVars, laterVars, inputVars, ssVars, storeVars, stageVars>>

\* ----------------------------------------- what the inputs ask for, in no order
\* the <<key, value, key source>> entries the three maps stand for
InputEntries(acc, code, sto) ==
    {<<KeyEthAddrBalance(a), IF acc[a].nil THEN 0 ELSE acc[a].Balance,
       EncodeKeySource(KEY_BALANCE, a, 0)>> : a \in DOMAIN acc}
      \cup {<<KeyEthAddrNonce(a), IF acc[a].nil THEN 0 ELSE acc[a].Nonce,
              EncodeKeySource(KEY_NONCE, a, 0)>> : a \in DOMAIN acc}
      \cup {<<KeyContractCode(a), convertBytecodeToBigInt(code[a]).bi,
              EncodeKeySource(SC_CODE, a, 0)>> : a \in DOMAIN code}
      \cup {<<KeyContractLength(a), convertBytecodeToBigInt(code[a]).length,
              EncodeKeySource(SC_LENGTH, a, 0)>> : a \in DOMAIN code}
      \cup UNION {{<<KeyContractStorage(a, k), convertStringToBigInt(sto[a][k]),
                     EncodeKeySource(SC_STORAGE, a, StrValToBigInt(k))>>
                    : k \in DOMAIN sto[a]} : a \in DOMAIN sto}

Entries == InputEntries(accChanges, codeChanges, storageChanges)
EntryOf(key) == CHOOSE e \in Entries : e[1] = key
Asked(key) == \E e \in Entries : e[1] = key

\* the state of the accounts at the end of the changes
FinalContent == [k \in AllKeys |-> IF Asked(k) THEN EntryOf(k)[2] ELSE InitialContent[k]]

\* slot and value strings as the stage formats them: "0x" and a fixed number
\* of hex digits
HexWidth == 2
Formatted(s) == HexPrefixed(s) /\ Len(s) = 2 + HexWidth

\* the maps zkIncrementIntermediateHashes collects from the change sets
StageInputs(acc, code, sto) ==
    /\ \A a \in DOMAIN acc : ~acc[a].nil
    /\ DOMAIN code \subseteq DOMAIN acc
    /\ \A a \in DOMAIN code : Len(code[a]) > 0
    /\ \A a \in DOMAIN sto : \A k \in DOMAIN sto[a] : Formatted(k) /\ Formatted(sto[a][k])

\* ------------------------------------------------------------------- stage
MaxBlock == 2

RollbackBatch ==
    /\ batchState' = "rolledback"
    /\ DbKeySource' = InitialKeySource
    /\ smtKV' = InitialContent

\* SpawnZkIntermediateHashesStage up to the call of one of the two paths
StageStart ==
    /\ caller = "stage"
    /\ stagePc = "start"
    /\ \E incrementTreeAlways \in BOOLEAN, sBlockNumber \in 0..MaxBlock,
          to \in 0..MaxBlock, rebuildTreeAfter \in 0..MaxBlock :
        IF sBlockNumber = to
        THEN /\ stagePc' = "returned"
             /\ UNCHANGED <<ssVars, storeVars, shouldIncrement, stageErr>>
        ELSE LET shouldRegenerate == to > sBlockNumber /\ to - sBlockNumber > rebuildTreeAfter
                 inc == incrementTreeAlways \/ (sBlockNumber > 0 /\ ~shouldRegenerate)
             IN /\ shouldIncrement' = inc
                /\ IF inc
                   THEN /\ batchState' = "open"
                        /\ EnterSetStorage
                        /\ stagePc' = "increment"
                        /\ UNCHANGED <<DbKeySource, smtKV, stageErr>>
                   ELSE /\ UNCHANGED <<ssVars, batchState>>
                        /\ \/ /\ smtKV' = [k \in AllKeys |-> FinalContent[k]]
                              /\ DbKeySource' =
                                    [k \in AllKeys |->
                                        IF FinalContent[k] # 0
                                        THEN EncodeKeySource(k[1], k[2], k[3])
                                        ELSE DbKeySource[k]]
                              /\ stagePc' = "checkRoot"
                              /\ UNCHANGED stageErr
                           \/ /\ ctxDone
                              /\ stagePc' = "returned"
                              /\ stageErr' = "cancelled"
                              /\ UNCHANGED <<DbKeySource, smtKV>>
    /\ UNCHANGED <<treeVars, scsVars, laterVars, inputVars, ctxDone, cancelledInCall, progressUpdated>>

\* zkIncrementIntermediateHashes returns: an error of SetStorage is handed on
IncrementReturns ==
    /\ stagePc = "increment"
    /\ ssPc = "returned"
    /\ IF ssErr # "none"
       THEN stagePc' = "returned" /\ stageErr' = ssErr
       ELSE stagePc' = "checkRoot" /\ UNCHANGED stageErr
    /\ UNCHANGED <<treeVars, scsVars, laterVars, inputVars, ssVars, storeVars, ctxDone, cancelledInCall,
                   shouldIncrement, progressUpdated>>

\* the check of the root against the header, then commit and stage progress
CheckRoot ==
    /\ stagePc = "checkRoot"
    /\ stagePc' = "returned"
    /\ \E checkRoot \in BOOLEAN, header \in {"error", "missing", "match", "mismatch"},
          debugLimit \in BOOLEAN :
        IF checkRoot /\ header \in {"error", "missing"}
        THEN /\ stageErr' = "header"
             /\ UNCHANGED <<storeVars, progressUpdated>>
        ELSE IF checkRoot /\ header = "mismatch"
        THEN /\ IF shouldIncrement THEN RollbackBatch ELSE UNCHANGED storeVars
             /\ stageErr' = IF debugLimit THEN "wrongRoot" ELSE "panic"
             /\ UNCHANGED progressUpdated
        ELSE /\ batchState' = IF shouldIncrement THEN "committed" ELSE batchState
             /\ progressUpdated' = TRUE
             /\ UNCHANGED <<DbKeySource, smtKV, stageErr>>
    /\ UNCHANGED <<treeVars, scsVars, laterVars, inputVars, ssVars, ctxDone, cancelledInCall, shouldIncrement>>

\* ------------------------------------------------------------ specification
Init ==
    /\ InitTreeVars
    /\ ScsIdle
    /\ LaterIdle
    /\ caller \in {"api", "stage"}
    /\ storageChanges \in {m \in PartialMaps(Addrs, StorageMaps) :
                             EntryCount(<<>>, <<>>, m) <= MaxEntries}
    /\ accChanges \in PartialMaps(Addrs, AccountValues)
    /\ codeChanges \in PartialMaps(Addrs, CodeStrings)
    /\ EntryCount(accChanges, codeChanges, storageChanges) <= MaxEntries
    /\ caller = "stage" => StageInputs(accChanges, codeChanges, storageChanges)
    /\ ssPc = "idle"
    /\ accPending = {}
    /\ codePending = {}
    /\ stoPending = {}
    /\ curAddr = ""
    /\ slotPending = {}
    /\ keysBatchStorage = <<>>
    /\ valuesBatchStorage = <<>>
    /\ ssErr = "none"
    /\ insertBatchCalled = FALSE
    /\ DbKeySource = InitialKeySource
    /\ smtKV = InitialContent
    /\ ctxDone = FALSE
    /\ cancelledInCall = FALSE
    /\ stagePc = IF caller = "stage" THEN "start" ELSE "none"
    /\ shouldIncrement = FALSE
    /\ batchState = "none"
    /\ stageErr = "none"
    /\ progressUpdated = FALSE

Next ==
    \/ SetStorageCall
    \/ \E a \in Addrs : AccountIteration(a)
    \/ \E a \in Addrs : CodeIteration(a)
    \/ \E a \in Addrs : StorageIteration(a)
    \/ \E k \in SlotStrings : SlotIteration(k)
    \/ InsertBatch
    \/ Cancel
    \/ StageStart
    \/ IncrementReturns
    \/ CheckRoot

Spec == Init /\ [][Next]_vars

\* ------------------------------------------------------ SetStorage: claims
\* SetStorage has returned and its caller has not gone on yet
JustReturned == ssPc = "returned" /\ stagePc \in {"none", "increment"}

\* SetStorage returned nil after handing its batch to InsertBatch
Succeeded == JustReturned /\ ssErr = "none" /\ insertBatchCalled

\* the key -> value mapping of the batch handed to InsertBatch (-1: key not in it)
BatchMapping == ApplyBatch(keysBatchStorage, valuesBatchStorage, [k \in AllKeys |-> -1])

AskedMapping == [k \in AllKeys |-> IF Asked(k) THEN EntryOf(k)[2] ELSE -1]

AskedKeySource ==
    [k \in AllKeys |->
        IF ~Asked(k) THEN InitialKeySource[k]
        ELSE IF EntryOf(k)[2] = 0 THEN NoKeySource ELSE EntryOf(k)[3]]

\* the same result whatever the iteration order: the result one order gives
OrderFreeResult ==
    /\ BatchMapping = AskedMapping
    /\ DbKeySource = AskedKeySource
    /\ smtKV = FinalContent

\* two slot strings of an address denote the same slot and carry different values
Conflict ==
    \E a \in DOMAIN storageChanges : \E k1, k2 \in DOMAIN storageChanges[a] :
        /\ k1 # k2
        /\ StrValToBigInt(k1) = StrValToBigInt(k2)
        /\ convertStringToBigInt(storageChanges[a][k1])
             # convertStringToBigInt(storageChanges[a][k2])

\* C6 as claimed: for fixed inputs the mapping handed to InsertBatch, the key
\* sources and the tree are the same in every iteration order of the maps,
\* slot strings that denote the same slot included.
C6_AnyOrderSameResult == Succeeded => OrderFreeResult

\* the values the inputs ask for at a key: more than one when slot strings
\* that denote the same slot carry different values
AskedValues(key) == {e[2] : e \in {x \in Entries : x[1] = key}}

\* C6 amended: for fixed inputs on which SetStorage succeeds, the mapping
\* handed to InsertBatch, the key sources and the tree are the same in every
\* iteration order at every key the inputs give one value; at a slot that two
\* slot strings of an address give different values, the batch, the tree and
\* the key source hold one of these values, that of the string iterated last.
C6_SameResultUpToConflictingSlots ==
    Succeeded =>
        \A k \in AllKeys :
            IF ~Asked(k)
            THEN /\ BatchMapping[k] = -1
                 /\ smtKV[k] = InitialContent[k]
                 /\ DbKeySource[k] = InitialKeySource[k]
            ELSE /\ BatchMapping[k] \in AskedValues(k)
                 /\ BatchMapping[k] = valuesBatchStorage[
                        CHOOSE i \in 1..Len(keysBatchStorage) :
                            /\ keysBatchStorage[i] = k
                            /\ \A j \in (i + 1)..Len(keysBatchStorage) : keysBatchStorage[j] # k]
                 /\ smtKV[k] = BatchMapping[k]
                 /\ DbKeySource[k] = IF BatchMapping[k] = 0
                                     THEN NoKeySource
                                     ELSE EncodeKeySource(k[1], k[2], k[3])

C6_Witness ==
    /\ Succeeded
    /\ Conflict
    /\ DOMAIN accChanges # {}
    /\ Len(keysBatchStorage) = 4
    /\ keysBatchStorage[3] = keysBatchStorage[4]
    /\ valuesBatchStorage[3] # 0
    /\ valuesBatchStorage[4] = 0
    /\ smtKV[keysBatchStorage[4]] = 0
    /\ DbKeySource[keysBatchStorage[4]] = NoKeySource

\* C7: when the context is cancelled while SetStorage runs under the stage's
\* open batch, the stage returns the cancellation error, InsertBatch is not
\* invoked, and what the call wrote is discarded by RollbackBatch.
C7_CancelRollsBack ==
    (caller = "stage" /\ stagePc = "returned" /\ cancelledInCall)
        => /\ stageErr = "cancelled"
           /\ ~insertBatchCalled
           /\ batchState = "rolledback"
           /\ DbKeySource = InitialKeySource

\* the value the batch leaves at a key: that of its last entry for the key
FinalBatchValue(key) == BatchMapping[key]

\* C10: after a successful SetStorage every key of the batch has no key
\* source if its value is zero, and else the encoding of its own kind, address
\* and storage slot.
C10_KeySourceRule ==
    (JustReturned /\ ssErr = "none") =>
        \A i \in 1..Len(keysBatchStorage) :
            LET key == keysBatchStorage[i]
            IN IF FinalBatchValue(key) = 0
               THEN DbKeySource[key] = NoKeySource
               ELSE DbKeySource[key] = EncodeKeySource(key[1], key[2], key[3])

C10_Witness ==
    /\ Succeeded
    /\ "a1" \in DOMAIN accChanges /\ accChanges["a1"].nil
    /\ InitialKeySource[KeyEthAddrBalance("a1")] # NoKeySource
    /\ DbKeySource[KeyEthAddrBalance("a1")] = NoKeySource
    /\ \E i \in 1..Len(keysBatchStorage) :
          /\ keysBatchStorage[i][1] = SC_STORAGE
          /\ keysBatchStorage[i][2] = "a2"
          /\ valuesBatchStorage[i] # 0
          /\ DbKeySource[keysBatchStorage[i]]
               = EncodeKeySource(SC_STORAGE, "a2", keysBatchStorage[i][3])

\* ------------------------------------------------------ SetContractStorage
\* the number of entries above which the values are hashed by goroutines
ParallelThreshold == 100
\* parallel.DefaultNumGoroutines() of the machine
NumCpu == 2
\* number of entries of a map that takes the sequential path
SmallCount == 3

\* the storage maps of the calls: keys 1..n, of which the first carry any of
\* the value strings and the others a value that hashes; and keys 0..n-1, the
\* empty string among them, all with a value that hashes
StorageCounts == {SmallCount, ParallelThreshold + 1}
EmptyString == <<>>
GoodValue == <<"0", "x", "0", "5">>
OversizeValue == <<"0", "x", "1", "0", "0">>
StorageValues == {EmptyString, GoodValue, OversizeValue}
VariedKeys == 1..NumCpu
StorageInputs ==
    UNION {{[k \in 1..n |-> IF k \in VariedKeys THEN f[k] ELSE GoodValue]
              : f \in [VariedKeys -> StorageValues]} : n \in StorageCounts}
      \cup {[k \in 0..(n - 1) |-> GoodValue] : n \in StorageCounts}

\* storageKeys: the keys in the order the range over the map gave them
\* (positions from 0); the zero value of a buffer's key cell is the empty string
EmptyKey == 0
storageKeyCount == Cardinality(DOMAIN storage)
storageKeys(j) == IF EmptyKey \in DOMAIN storage THEN j ELSE j + 1
cpuNum == NumCpu
Workers == 0..(cpuNum - 1)
operationsPerCpu == (storageKeyCount \div cpuNum) + (storageKeyCount % cpuNum)

NilNodeValue == <<>>
ZeroHash == <<0, 0, 0, 0>>
Hash(val) == <<1, val, 0, 0>>

calcHashVal(v) ==
    LET val == convertStringToBigInt(v)
    IN IF NodeValue8Fits(val)
       THEN [c |-> <<val>>, h |-> Hash(val), e |-> "nil"]
       ELSE [c |-> NilNodeValue, h |-> ZeroHash, e |-> "invalid"]

MapPut(m, k, v) == [x \in DOMAIN m \cup {k} |-> IF x = k THEN v ELSE m[x]]

Loc(name, row) == <<name, row>>

\* entry: the maps are made; above the threshold the buffers too, and the
\* wait group is set to the number of goroutines
SetContractStorageCall ==
    /\ scsPc = "idle"
    /\ chm' = <<>>
    /\ vhm' = <<>>
    /\ IF storageKeyCount > ParallelThreshold
       THEN /\ keyArray' = [i \in Workers |-> [c \in 0..(operationsPerCpu - 1) |-> EmptyKey]]
            /\ cVArray' = [i \in Workers |-> [c \in 0..(operationsPerCpu - 1) |-> NilNodeValue]]
            /\ hashArray' = [i \in Workers |-> [c \in 0..(operationsPerCpu - 1) |-> ZeroHash]]
            /\ wgCounter' = cpuNum
            /\ wPc' = [i \in Workers |-> "unborn"]
            /\ wJ' = [i \in Workers |-> 0]
            /\ wCount' = [i \in Workers |-> 0]
            /\ scsErr' = "nil"
            /\ spawnI' = 0
            /\ scsPc' = "spawn"
            /\ UNCHANGED seqJ
       ELSE /\ seqJ' = 0
            /\ scsPc' = "seq"
            /\ UNCHANGED <<bufferVars, wgCounter, workerVars, scsErr, spawnI>>
    /\ UNCHANGED <<treeVars, callVars, laterVars, storage, mergeVars, scsReturn, fanOutWrites, mapWriters>>

\* an iteration of the loop that starts the goroutines
Spawn ==
    /\ scsPc = "spawn"
    /\ wPc' = [wPc EXCEPT ![spawnI] = "loop"]
    /\ wJ' = [wJ EXCEPT ![spawnI] = spawnI]
    /\ wCount' = [wCount EXCEPT ![spawnI] = 0]
    /\ spawnI' = spawnI + 1
    /\ scsPc' = IF spawnI + 1 < cpuNum THEN "spawn" ELSE "wait"
    /\ UNCHANGED <<treeVars, callVars, laterVars, storage, seqJ, wgCounter, bufferVars, scsErr,
                   mapVars, mergeVars, scsReturn, fanOutWrites>>

\* the deferred wg.Done() of a goroutine that returns
WorkerReturns(i) ==
    /\ wPc' = [wPc EXCEPT ![i] = "done"]
    /\ wgCounter' = wgCounter - 1

\* a goroutine: one round of its loop, or the end of the loop
WorkerStep(i) ==
    /\ i \in DOMAIN wPc
    /\ wPc[i] = "loop"
    /\ IF wJ[i] >= storageKeyCount
       THEN /\ WorkerReturns(i)
            /\ UNCHANGED <<wJ, wCount, bufferVars, scsErr, fanOutWrites>>
       ELSE LET k == storageKeys(wJ[i])
                v == storage[k]
                r == calcHashVal(v)
            IN IF v = EmptyString
               THEN /\ wJ' = [wJ EXCEPT ![i] = @ + cpuNum]
                    /\ UNCHANGED <<wPc, wgCounter, wCount, bufferVars, scsErr, fanOutWrites>>
               ELSE IF r.e # "nil"
               THEN /\ scsErr' = r.e
                    /\ fanOutWrites' = fanOutWrites \cup {<<i, Loc("err", 0)>>}
                    /\ WorkerReturns(i)
                    /\ UNCHANGED <<wJ, wCount, bufferVars>>
               ELSE /\ keyArray' = [keyArray EXCEPT ![i][wCount[i]] = k]
                    /\ cVArray' = [cVArray EXCEPT ![i][wCount[i]] = r.c]
                    /\ hashArray' = [hashArray EXCEPT ![i][wCount[i]] = r.h]
                    /\ fanOutWrites' = fanOutWrites \cup
                          {<<i, Loc("keyArray", i)>>, <<i, Loc("cVArray", i)>>,
                           <<i, Loc("hashArray", i)>>}
                    /\ wCount' = [wCount EXCEPT ![i] = @ + 1]
                    /\ wJ' = [wJ EXCEPT ![i] = @ + cpuNum]
                    /\ UNCHANGED <<wPc, wgCounter, scsErr>>
    /\ UNCHANGED <<treeVars, callVars, laterVars, storage, scsPc, seqJ, spawnI, mapVars, mergeVars,
                   scsReturn>>

\* wg.Wait() returns once the counter is zero
WaitReturnsAtOne == wgCounter <= 1
WaitReturns == wgCounter = 0

\* wg.Wait() returns, and err is looked at
Join ==
    /\ scsPc = "wait"
    /\ WaitReturns
    /\ IF scsErr # "nil"
       THEN /\ scsPc' = "returned"
            /\ scsReturn' = "error"
            /\ UNCHANGED mergeVars
       ELSE /\ scsPc' = "merge"
            /\ mergeI' = 0
            /\ mergeJ' = 0
            /\ UNCHANGED scsReturn
    /\ UNCHANGED <<treeVars, callVars, laterVars, storage, seqJ, spawnI, wgCounter, workerVars,
                   bufferVars, scsErr, mapVars, fanOutWrites>>

\* a round of the inner merge loop; an empty key cell is passed over
MergeStep ==
    /\ scsPc = "merge"
    /\ LET k == keyArray[mergeI][mergeJ]
       IN IF k = EmptyKey
          THEN UNCHANGED mapVars
          ELSE /\ chm' = MapPut(chm, k, cVArray[mergeI][mergeJ])
               /\ vhm' = MapPut(vhm, k, hashArray[mergeI][mergeJ])
               /\ mapWriters' = mapWriters \cup {"caller"}
    /\ IF mergeJ + 1 < operationsPerCpu
       THEN mergeJ' = mergeJ + 1 /\ UNCHANGED <<mergeI, scsPc>>
       ELSE /\ mergeJ' = 0
            /\ mergeI' = mergeI + 1
            /\ scsPc' = IF mergeI + 1 < cpuNum THEN "merge" ELSE "insert"
    /\ UNCHANGED <<treeVars, callVars, laterVars, storage, seqJ, spawnI, wgCounter, workerVars,
                   bufferVars, scsErr, scsReturn, fanOutWrites>>

\* a round of the sequential loop
SequentialStep ==
    /\ scsPc = "seq"
    /\ IF seqJ >= storageKeyCount
       THEN scsPc' = "insert" /\ UNCHANGED <<seqJ, mapVars, scsReturn>>
       ELSE LET k == storageKeys(seqJ)
                v == storage[k]
                r == calcHashVal(v)
            IN IF v = EmptyString
               THEN seqJ' = seqJ + 1 /\ UNCHANGED <<scsPc, mapVars, scsReturn>>
               ELSE IF r.e # "nil"
               THEN /\ scsPc' = "returned"
                    /\ scsReturn' = "error"
                    /\ UNCHANGED <<seqJ, mapVars>>
               ELSE /\ chm' = MapPut(chm, k, r.c)
                    /\ vhm' = MapPut(vhm, k, r.h)
                    /\ mapWriters' = mapWriters \cup {"caller"}
                    /\ seqJ' = seqJ + 1
                    /\ UNCHANGED <<scsPc, scsReturn>>
    /\ UNCHANGED <<treeVars, callVars, laterVars, storage, spawnI, wgCounter, workerVars, bufferVars,
                   scsErr, mergeVars, fanOutWrites>>

\* InsertStorage, the first change of the tree and the store, and the return
InsertStorage ==
    /\ scsPc = "insert"
    /\ scsPc' = "returned"
    /\ \E failed \in BOOLEAN : scsReturn' = IF failed THEN "error" ELSE "root"
    /\ UNCHANGED <<treeVars, callVars, laterVars, storage, seqJ, spawnI, wgCounter, workerVars,
                   bufferVars, scsErr, mapVars, mergeVars, fanOutWrites>>

InitSCS ==
    /\ InitTreeVars
    /\ CallIdle
    /\ LaterIdle
    /\ storage \in StorageInputs
    /\ scsPc = "idle"
    /\ seqJ = 0
    /\ spawnI = 0
    /\ wgCounter = 0
    /\ wPc = <<>>
    /\ wJ = <<>>
    /\ wCount = <<>>
    /\ keyArray = <<>>
    /\ cVArray = <<>>
    /\ hashArray = <<>>
    /\ scsErr = "nil"
    /\ chm = <<>>
    /\ vhm = <<>>
    /\ mergeI = 0
    /\ mergeJ = 0
    /\ scsReturn = "none"
    /\ fanOutWrites = {}
    /\ mapWriters = {}

NextSCS ==
    \/ SetContractStorageCall
    \/ Spawn
    \/ \E i \in Workers : WorkerStep(i)
    \/ Join
    \/ MergeStep
    \/ SequentialStep
    \/ InsertStorage

SpecSCS == InitSCS /\ [][NextSCS]_vars

\* ---------------------------------------------- SetContractStorage: claims
ParallelPath == storageKeyCount > ParallelThreshold
InsertStorageInvoked == scsPc = "returned" /\ scsReturn # "none" /\ (ParallelPath => scsErr = "nil")

\* C8: on the parallel path, once the caller merges the buffers, is about to
\* call InsertStorage or has called it, every worker goroutine has returned;
\* chm and vhm are written by the calling goroutine only.
C8_JoinBarrier ==
    /\ (ParallelPath /\ (scsPc \in {"merge", "insert"} \/ InsertStorageInvoked))
          => \A i \in Workers : wPc[i] = "done"
    /\ mapWriters \subseteq {"caller"}

C8_Witness ==
    /\ ParallelPath
    /\ scsPc = "insert"
    /\ \A i \in Workers : wPc[i] = "done"
    /\ \E i \in Workers :
          /\ wCount[i] > 0
          /\ wCount[i] < operationsPerCpu
          /\ keyArray[i][wCount[i]] = EmptyKey
    /\ storage[1] = EmptyString
    /\ 1 \notin DOMAIN chm
    /\ 2 \in DOMAIN chm
    /\ mapWriters = {"caller"}

\* C9: between the start of the workers and the join a worker writes only
\* its own buffers, and no location is written by two workers, also when
\* calcHashVal fails in several workers.
C9_WorkersWriteOwnBuffersOnly ==
    /\ \A w \in fanOutWrites :
          w[2] \in {Loc("keyArray", w[1]), Loc("cVArray", w[1]), Loc("hashArray", w[1])}
    /\ \A w1, w2 \in fanOutWrites : w1[2] = w2[2] => w1[1] = w2[1]

\* the slot keys with a value string that is not empty, and whether the
\* value of one of them does not hash
NonEmptySlots == {k \in DOMAIN storage : storage[k] # EmptyString}
AnyHashFails == \E k \in NonEmptySlots : calcHashVal(storage[k]).e # "nil"

\* C30: what the parallel path hands to InsertStorage is what the sequential
\* loop gives for the same map: in chm the 8-limb value and in vhm the value
\* hash of every slot key with a non-empty value string, and nothing else;
\* and if a calcHashVal fails, InsertStorage is not called and an error is
\* returned.
C30_ParallelAsSequential ==
    /\ (ParallelPath /\ scsPc = "insert") =>
          /\ DOMAIN chm = NonEmptySlots
          /\ DOMAIN vhm = NonEmptySlots
          /\ \A k \in NonEmptySlots :
                /\ chm[k] = calcHashVal(storage[k]).c
                /\ vhm[k] = calcHashVal(storage[k]).h
    /\ (ParallelPath /\ AnyHashFails) =>
          /\ scsPc # "insert"
          /\ scsPc = "returned" => scsReturn = "error"

\* ------------------------------------------------------------------ MemDb
\* every group of variables but MemDb's
exceptMem == <<treeVars, callVars, scsVars, bufVars, aclVars, gasVars, txVars, bpVars, runVars, dsVars>>

\* Number of MemDb methods called in one behaviour.
MaxMemOps == 3
MemThreads == {1, 2}

\* node keys and node values; a node value has 12 limbs, the model's has 2
MemKeys == {1}
\* the keys Get is asked for: the one written and one never written
ProbeKeys == {1, 2}
ZeroNodeValue == <<0, 0>>
MemNodeValues == {<<1, 171>>}
KeySourceBytes == <<5>>

\* hex.EncodeToString: two digits a byte
HexDigits == <<"0", "1", "2", "3", "4", "5", "6", "7", "8", "9", "a", "b", "c", "d", "e", "f">>
HexByte(b) == <<HexDigits[(b \div 16) + 1], HexDigits[(b % 16) + 1]>>
RECURSIVE HexEncodeToString(_)
HexEncodeToString(bytes) ==
    IF bytes = <<>> THEN <<>> ELSE HexByte(Head(bytes)) \o HexEncodeToString(Tail(bytes))

\* utils.ConvertArrayToHex of a node key, utils.ConvertUint64ToHex and
\* utils.ConvertHexToUint64 of a limb
ConvertArrayToHex(key) == <<"0", "x">> \o HexByte(key)
ConvertUint64ToHex(v) == <<"0", "x">> \o HexByte(v)
ConvertHexToUint64(str) == convertStringToBigInt(str)

\* bytecodes and their hashes; a hash has 32 bytes, the model's has 2, and
\* the hash of the first bytecode starts with a zero byte
HashLen == 2
Codes == {<<96>>, <<96, 1>>}
CodeHashBytes(code) == IF Len(code) = 1 THEN <<0, 7>> ELSE <<163, 0>>

RECURSIVE TrimLeadingZeroes(_)
TrimLeadingZeroes(bytes) ==
    IF bytes # <<>> /\ Head(bytes) = 0 THEN TrimLeadingZeroes(Tail(bytes)) ELSE bytes

RECURSIVE ResizeHashTo32BytesByPrefixingWithZeroes(_)
ResizeHashTo32BytesByPrefixingWithZeroes(hash) ==
    IF Len(hash) < HashLen
    THEN ResizeHashTo32BytesByPrefixingWithZeroes(<<0>> \o hash)
    ELSE hash

\* utils.HashContractBytecode: the hash as "0x" and its 32 bytes in hex
HashContractBytecode(code) == <<"0", "x">> \o HexEncodeToString(CodeHashBytes(code))

\* the code hashes GetCode is asked for: those of the bytecodes, in full and
\* without their leading zero bytes, and one that is no bytecode's
CodeHashInputs ==
    {CodeHashBytes(c) : c \in Codes} \cup {TrimLeadingZeroes(CodeHashBytes(c)) : c \in Codes}
        \cup {<<9, 9>>}

NewMemDb ==
    [Db |-> <<>>, DbAccVal |-> <<>>, DbKeySource |-> <<>>, DbHashKey |-> <<>>,
     DbCode |-> <<>>, LastRoot |-> 0, Depth |-> 0]

MapDelete(m, k) == [x \in DOMAIN m \ {k} |-> m[x]]

ReadOps == {"Get", "GetAccountValue", "GetKeySource", "GetHashKey", "GetCode",
            "GetLastRoot", "GetDepth", "IsEmpty"}
WriteOps == {"Insert", "Delete", "DeleteByNodeKey", "InsertAccountValue", "InsertKeySource",
             "DeleteKeySource", "InsertHashKey", "DeleteHashKey", "AddCode", "SetLastRoot",
             "SetDepth"}
BatchOps == {"OpenBatch", "CommitBatch", "RollbackBatch"}

\* the arguments the model calls a method with
MemArgs(op) ==
    IF op \in {"Insert", "InsertAccountValue"} THEN MemKeys \X MemNodeValues
    ELSE IF op = "InsertHashKey" THEN {<<1, 2>>}
    ELSE IF op \in {"InsertKeySource", "DeleteKeySource", "GetKeySource", "DeleteHashKey",
                    "GetHashKey", "GetAccountValue"} THEN {1}
    ELSE IF op = "Get" THEN ProbeKeys
    ELSE IF op = "DeleteByNodeKey" THEN MemKeys
    ELSE IF op = "Delete" THEN {ConvertArrayToHex(k) : k \in MemKeys}
    ELSE IF op = "GetCode" THEN CodeHashInputs
    ELSE IF op = "AddCode" THEN Codes
    ELSE IF op \in {"SetLastRoot", "SetDepth"} THEN {1}
    ELSE {0}

\* the limbs of a node value as the hex strings the maps hold, and back
LimbsToHex(value) == [i \in DOMAIN value |-> ConvertUint64ToHex(value[i])]
LimbsFromHex(strs) ==
    [i \in DOMAIN ZeroNodeValue |-> IF i \in DOMAIN strs THEN ConvertHexToUint64(strs[i]) ELSE 0]

\* the value a range over m[k] reads: nothing for a key the map does not hold
Lookup(m, k) == IF k \in DOMAIN m THEN m[k] ELSE <<>>

MemGet(db, key) ==
    [val |-> LimbsFromHex(Lookup(db.Db, ConvertArrayToHex(key))), err |-> "nil"]

MemGetAccountValue(db, key) ==
    [val |-> LimbsFromHex(Lookup(db.DbAccVal, ConvertArrayToHex(key))), err |-> "nil"]

MemGetKeySource(db, key) ==
    LET k == ConvertArrayToHex(key)
    IN IF k \in DOMAIN db.DbKeySource
       THEN [val |-> db.DbKeySource[k], err |-> "nil"]
       ELSE [val |-> <<>>, err |-> "ErrNotFound"]

MemGetHashKey(db, key) ==
    LET k == ConvertArrayToHex(key)
    IN IF k \in DOMAIN db.DbHashKey
       THEN [val |-> db.DbHashKey[k], err |-> "nil"]
       ELSE [val |-> <<>>, err |-> "ErrNotFound"]

\* GetCode that looks the hash up as it is given
MemGetCodeNoResize(db, codeHash) ==
    LET k == <<"0", "x">> \o HexEncodeToString(codeHash)
    IN IF k \in DOMAIN db.DbCode
       THEN [val |-> db.DbCode[k], err |-> "nil"]
       ELSE [val |-> <<>>, err |-> "ErrNotFound"]

MemGetCode(db, codeHash) ==
    LET k == <<"0", "x">> \o HexEncodeToString(ResizeHashTo32BytesByPrefixingWithZeroes(codeHash))
    IN IF k \in DOMAIN db.DbCode
       THEN [val |-> db.DbCode[k], err |-> "nil"]
       ELSE [val |-> <<>>, err |-> "ErrNotFound"]

MemAddCode(db, code) == [db EXCEPT !.DbCode = MapPut(@, HashContractBytecode(code), code)]

\* what a method returns
MemResult(op, arg, db) ==
    CASE op = "Get" -> MemGet(db, arg)
      [] op = "GetAccountValue" -> MemGetAccountValue(db, arg)
      [] op = "GetKeySource" -> MemGetKeySource(db, arg)
      [] op = "GetHashKey" -> MemGetHashKey(db, arg)
      [] op = "GetCode" -> MemGetCode(db, arg)
      [] op = "GetLastRoot" -> [val |-> <<db.LastRoot>>, err |-> "nil"]
      [] op = "GetDepth" -> [val |-> <<db.Depth>>, err |-> "nil"]
      [] op = "IsEmpty" -> [val |-> <<DOMAIN db.Db = {}>>, err |-> "nil"]
      [] OTHER -> [val |-> <<>>, err |-> "nil"]

\* what a method does to the store
MemEffect(op, arg, db) ==
    CASE op = "Insert" ->
            [db EXCEPT !.Db = MapPut(@, ConvertArrayToHex(arg[1]), LimbsToHex(arg[2]))]
      [] op = "Delete" -> [db EXCEPT !.Db = MapDelete(@, arg)]
      [] op = "DeleteByNodeKey" -> [db EXCEPT !.Db = MapDelete(@, ConvertArrayToHex(arg))]
      [] op = "InsertAccountValue" ->
            [db EXCEPT !.DbAccVal = MapPut(@, ConvertArrayToHex(arg[1]), LimbsToHex(arg[2]))]
      [] op = "InsertKeySource" ->
            [db EXCEPT !.DbKeySource = MapPut(@, ConvertArrayToHex(arg), KeySourceBytes)]
      [] op = "DeleteKeySource" ->
            [db EXCEPT !.DbKeySource = MapDelete(@, ConvertArrayToHex(arg))]
      [] op = "InsertHashKey" ->
            [db EXCEPT !.DbHashKey = MapPut(@, ConvertArrayToHex(arg[1]), <<arg[2]>>)]
      [] op = "DeleteHashKey" -> [db EXCEPT !.DbHashKey = MapDelete(@, ConvertArrayToHex(arg))]
      [] op = "AddCode" -> MemAddCode(db, arg)
      [] op = "SetLastRoot" -> [db EXCEPT !.LastRoot = arg]
      [] op = "SetDepth" -> [db EXCEPT !.Depth = arg]
      [] OTHER -> db

\* a store in which RollbackBatch drops what the store holds
BatchEffectRollbackClears(op, db) == IF op = "RollbackBatch" THEN NewMemDb ELSE db

\* OpenBatch, CommitBatch and RollbackBatch have empty bodies
BatchEffect(op, db) == db

\* a lock discipline in which Insert takes the read lock
LockKindInsertShared(op) ==
    IF op = "Insert" THEN "R"
    ELSE IF op \in WriteOps THEN "W"
    ELSE IF op \in ReadOps THEN "R" ELSE "none"

\* m.lock.Lock() in the writing methods, m.lock.RLock() in the reading ones
LockKind(op) ==
    IF op \in WriteOps THEN "W"
    ELSE IF op \in ReadOps THEN "R" ELSE "none"

NoResult == [op |-> "none", arg |-> 0, val |-> <<>>, err |-> "nil", present |-> FALSE, added |-> {}]

\* the bytecodes a code hash, in full or without its leading zero bytes, is the hash of
CodesOfHash(codeHash) ==
    {c \in Codes : codeHash \in {CodeHashBytes(c), TrimLeadingZeroes(CodeHashBytes(c))}}

\* a thread enters a method: it takes the lock, which blocks while a writer
\* holds it, and for a writer also while readers hold it
MemStart(t, op, arg) ==
    /\ mdOps < MaxMemOps
    /\ mdThread[t].pc = "idle"
    /\ mdLock.writer = 0
    /\ LockKind(op) = "W" => mdLock.readers = {}
    /\ mdLock' = IF LockKind(op) = "W"
                 THEN [mdLock EXCEPT !.writer = t]
                 ELSE [mdLock EXCEPT !.readers = @ \cup {t}]
    /\ mdThread' = [mdThread EXCEPT ![t].pc = "in", ![t].op = op, ![t].arg = arg,
                                    ![t].res = NoResult]
    /\ mdOps' = mdOps + 1
    /\ UNCHANGED <<exceptMem, memDb, mdBatchPre, mdLastOp, mdCodesAdded>>

\* the body of the method and the deferred unlock
MemFinish(t) ==
    /\ mdThread[t].pc = "in"
    /\ LET op == mdThread[t].op
           arg == mdThread[t].arg
           r == MemResult(op, arg, memDb)
       IN /\ memDb' = MemEffect(op, arg, memDb)
          /\ mdThread' = [mdThread EXCEPT
                ![t].pc = "idle",
                ![t].res = [op |-> op, arg |-> arg, val |-> r.val, err |-> r.err,
                            present |-> op = "Get" /\ ConvertArrayToHex(arg) \in DOMAIN memDb.Db,
                            added |-> IF op = "GetCode"
                                      THEN CodesOfHash(arg) \cap mdCodesAdded ELSE {}]]
          /\ mdCodesAdded' = IF op = "AddCode" THEN mdCodesAdded \cup {arg} ELSE mdCodesAdded
          /\ mdLastOp' = op
    /\ mdLock' = [readers |-> mdLock.readers \ {t},
                  writer |-> IF mdLock.writer = t THEN 0 ELSE mdLock.writer]
    /\ UNCHANGED <<exceptMem, mdOps, mdBatchPre>>

\* OpenBatch, CommitBatch or RollbackBatch: no lock is taken
MemBatch(t, op) ==
    /\ mdOps < MaxMemOps
    /\ mdThread[t].pc = "idle"
    /\ memDb' = BatchEffect(op, memDb)
    /\ mdBatchPre' = memDb
    /\ mdLastOp' = op
    /\ mdOps' = mdOps + 1
    /\ mdThread' = [mdThread EXCEPT ![t].res = [NoResult EXCEPT !.op = op]]
    /\ UNCHANGED <<exceptMem, mdLock, mdCodesAdded>>

InitMemDb ==
    /\ InitTreeVars
    /\ CallIdle
    /\ ScsIdle
    /\ BufIdle
    /\ AclIdle
    /\ GasIdle
    /\ TxIdle
    /\ BpIdle
    /\ RunIdle
    /\ DsIdle
    /\ memDb = NewMemDb
    /\ mdLock = [readers |-> {}, writer |-> 0]
    /\ mdThread = [t \in MemThreads |-> [pc |-> "idle", op |-> "none", arg |-> 0, res |-> NoResult]]
    /\ mdOps = 0
    /\ mdBatchPre = NewMemDb
    /\ mdLastOp = "none"
    /\ mdCodesAdded = {}

NextMemDb ==
    \/ \E t \in MemThreads, op \in ReadOps \cup WriteOps : \E arg \in MemArgs(op) :
          MemStart(t, op, arg)
    \/ \E t \in MemThreads : MemFinish(t)
    \/ \E t \in MemThreads, op \in BatchOps : MemBatch(t, op)

SpecMemDb == InitMemDb /\ [][NextMemDb]_vars

\* ----------------------------------------------------------- MemDb: claims
\* C11: a Get of a key the store does not hold (never inserted, or deleted)
\* returns the ErrNotFound error.
C11_GetAbsentIsErrNotFound ==
    \A t \in DOMAIN mdThread :
        (mdThread[t].res.op = "Get" /\ ~mdThread[t].res.present)
            => mdThread[t].res.err = "ErrNotFound"

C13_WriterExcludesAll ==
    /\ \A t1, t2 \in DOMAIN mdThread :
          (t1 # t2 /\ mdThread[t1].pc = "in" /\ mdThread[t1].op \in WriteOps)
              => mdThread[t2].pc # "in"
    /\ DOMAIN mdThread # {} => (mdLock.writer # 0 => mdLock.readers = {})

C13_Witness ==
    \E t1, t2 \in DOMAIN mdThread :
        /\ t1 # t2
        /\ mdThread[t1].pc = "in"
        /\ mdThread[t1].op \in WriteOps
        /\ mdLock.writer = t1
        /\ mdThread[t2].pc = "idle"
        /\ mdThread[t2].res.op \in ReadOps

\* C14: OpenBatch, CommitBatch and RollbackBatch leave every map and both
\* metadata fields as they were; what was written after OpenBatch is still
\* there after RollbackBatch.
C14_BatchingIsNoOp ==
    mdLastOp \in BatchOps => memDb = mdBatchPre

C14_Witness ==
    /\ mdLastOp = "RollbackBatch"
    /\ mdOps = MaxMemOps
    /\ memDb # NewMemDb
    /\ memDb = mdBatchPre

\* ------------------------------------- SetContractStorage: buffer lengths
\* every group of variables but the buffer sizing's
exceptBuf == <<treeVars, callVars, scsVars, memVars, aclVars, gasVars, txVars, bpVars, runVars, dsVars>>

\* Largest storage size and worker count looked at; the parallel path needs
\* more than ParallelThreshold entries.
MaxStorageLen == 106
MaxCpuNum == 7

StorageLens == (ParallelThreshold + 1)..MaxStorageLen
\* worker counts: the small ones, and those around the storage size
CpuNums(n) == (1..MaxCpuNum) \cup {n - 1, n, n + 1}

\* a buffer of the quotient alone
BufferLenQuotient(n, c) == n \div c

\* operationsPerCpu := storageKeyCount/cpuNum + storageKeyCount%cpuNum
BufferLen(n, c) == (n \div c) + (n % c)

\* the indices i, i+c, i+2c, ... below n
IndicesOfWorker(n, c, i) == {j \in 0..(n - 1) : j % c = i}

\* one iteration of the worker's loop: the loop ends, or the value is the empty
\* string (continue), or calcHashVal fails (return), or the entry is written at
\* index count; a write past the end of the buffer panics
BufStep(empty, invalid) ==
    /\ bfPc = "loop"
    /\ IF bfJ >= bfN
       THEN /\ bfPc' = "done"
            /\ UNCHANGED <<bfJ, bfCount, bfOverrun>>
       ELSE IF empty
       THEN /\ bfJ' = bfJ + bfC
            /\ UNCHANGED <<bfPc, bfCount, bfOverrun>>
       ELSE IF invalid
       THEN /\ bfPc' = "done"
            /\ UNCHANGED <<bfJ, bfCount, bfOverrun>>
       ELSE /\ bfOverrun' = (bfOverrun \/ bfCount >= bfLen)
            /\ bfPc' = IF bfCount >= bfLen THEN "panic" ELSE "loop"
            /\ bfCount' = bfCount + 1
            /\ bfJ' = bfJ + bfC
    /\ UNCHANGED <<exceptBuf, bfN, bfC, bfI, bfLen>>

InitBuf ==
    /\ InitTreeVars
    /\ CallIdle
    /\ ScsIdle
    /\ MemIdle
    /\ AclIdle
    /\ GasIdle
    /\ TxIdle
    /\ BpIdle
    /\ RunIdle
    /\ DsIdle
    /\ bfN \in StorageLens
    /\ bfC \in CpuNums(bfN)
    /\ bfI \in 0..(bfC - 1)
    /\ bfLen = BufferLen(bfN, bfC)
    /\ bfJ = bfI
    /\ bfCount = 0
    /\ bfPc = "loop"
    /\ bfOverrun = FALSE

NextBuf == \E empty, invalid \in BOOLEAN : BufStep(empty, invalid)

SpecBuf == InitBuf /\ [][NextBuf]_vars

\* C15: the buffers of a worker are at least as long as the number of entries
\* the worker goes through, and no worker writes past the end of its buffer.
C15_BufferFitsWorker ==
    bfPc # "idle" =>
        /\ bfLen >= Cardinality(IndicesOfWorker(bfN, bfC, bfI))
        /\ bfCount <= bfLen
        /\ ~bfOverrun

\* a worker that has filled its buffer to the last cell
C15_Witness ==
    /\ bfPc = "done"
    /\ bfJ >= bfN
    /\ bfCount = bfLen
    /\ bfCount = Cardinality(IndicesOfWorker(bfN, bfC, bfI))

\* ------------------------------------------------------- tx pool: the ACL
\* every group of variables but the ACL's
exceptAcl == <<treeVars, callVars, scsVars, memVars, bufVars, gasVars, txVars, bpVars, runVars, dsVars>>

\* Number of ACL calls in one behaviour.
MaxAclOps == 4

DisabledMode == "disabled"
AllowlistMode == "allowlist"
BlocklistMode == "blocklist"
Modes == {DisabledMode, AllowlistMode, BlocklistMode}
ModeInputs == Modes \cup {"invalid_mode"}

AclTypes == {"allowlist", "blocklist"}
AclTypeInputs == AclTypes \cup {"unknown_acl_type"}

SendTx == 1
Deploy == 2
UnknownPolicy == 33
Policies == {SendTx, Deploy}
PolicyInputs == Policies \cup {UnknownPolicy}
AclAddrs == {1}

\* a validator that reads the blocklist in every mode
PolicyTableBlocklistOnly(mode) == "blocklist"

\* the list the validator reads in a mode
PolicyTable(mode) == IF mode = AllowlistMode THEN "allowlist" ELSE "blocklist"

DoesAccountHavePolicy(mode, table, addr, policy) == <<addr, policy>> \in table[PolicyTable(mode)]

\* the decision of the policy validator
IsActionAllowed(mode, table, addr, policy) ==
    IF policy \notin Policies THEN [allowed |-> FALSE, err |-> "errUnknownPolicy"]
    ELSE IF mode = DisabledMode THEN [allowed |-> TRUE, err |-> "nil"]
    ELSE IF mode = AllowlistMode
    THEN [allowed |-> DoesAccountHavePolicy(mode, table, addr, policy), err |-> "nil"]
    ELSE [allowed |-> ~DoesAccountHavePolicy(mode, table, addr, policy), err |-> "nil"]

SetMode(mode) ==
    /\ aclOps < MaxAclOps
    /\ aclOps' = aclOps + 1
    /\ IF mode \in Modes
       THEN /\ aclMode' = mode
            /\ aclModeSet' = mode
            /\ aclLast' = [op |-> "SetMode", err |-> "nil"]
       ELSE /\ aclLast' = [op |-> "SetMode", err |-> "errInvalidMode"]
            /\ UNCHANGED <<aclMode, aclModeSet>>
    /\ UNCHANGED <<exceptAcl, aclTable, aclAdded>>

AddPolicy(aclType, addr, policy) ==
    /\ aclOps < MaxAclOps
    /\ aclOps' = aclOps + 1
    /\ IF policy \notin Policies
       THEN /\ aclLast' = [op |-> "AddPolicy", err |-> "errUnknownPolicy"]
            /\ UNCHANGED <<aclTable, aclAdded>>
       ELSE IF aclType \notin AclTypes
       THEN /\ aclLast' = [op |-> "AddPolicy", err |-> "errUnsupportedACLType"]
            /\ UNCHANGED <<aclTable, aclAdded>>
       ELSE /\ aclTable' = [aclTable EXCEPT ![aclType] = @ \cup {<<addr, policy>>}]
            /\ aclAdded' = aclAdded \cup {<<aclType, addr, policy>>}
            /\ aclLast' = [op |-> "AddPolicy", err |-> "nil"]
    /\ UNCHANGED <<exceptAcl, aclMode, aclModeSet>>

IsActionAllowedCall(addr, policy) ==
    /\ aclOps < MaxAclOps
    /\ aclOps' = aclOps + 1
    /\ LET r == IsActionAllowed(aclMode, aclTable, addr, policy)
       IN aclLast' = [op |-> "IsActionAllowed", addr |-> addr, policy |-> policy,
                      allowed |-> r.allowed, err |-> r.err]
    /\ UNCHANGED <<exceptAcl, aclMode, aclModeSet, aclTable, aclAdded>>

InitAcl ==
    /\ InitTreeVars
    /\ CallIdle
    /\ ScsIdle
    /\ MemIdle
    /\ BufIdle
    /\ GasIdle
    /\ TxIdle
    /\ BpIdle
    /\ RunIdle
    /\ DsIdle
    /\ aclMode = DisabledMode
    /\ aclTable = [l \in AclTypes |-> {}]
    /\ aclOps = 0
    /\ aclLast = [op |-> "none", err |-> "nil"]
    /\ aclAdded = {}
    /\ aclModeSet = DisabledMode

NextAcl ==
    \/ \E mode \in ModeInputs : SetMode(mode)
    \/ \E aclType \in AclTypeInputs, addr \in AclAddrs, policy \in PolicyInputs :
          AddPolicy(aclType, addr, policy)
    \/ \E addr \in AclAddrs, policy \in PolicyInputs : IsActionAllowedCall(addr, policy)

SpecAcl == InitAcl /\ [][NextAcl]_vars

\* C16: after any sequence of SetMode and AddPolicy calls, IsActionAllowed is
\* true in blocklist mode iff the address does not have the policy in the
\* blocklist, true in allowlist mode iff it has the policy in the allowlist,
\* and true in disabled mode; what the other list holds does not matter.
C16_DecisionRule ==
    (aclOps > 0 /\ aclLast.op = "IsActionAllowed" /\ aclLast.policy \in Policies) =>
        /\ aclLast.err = "nil"
        /\ aclLast.allowed =
              CASE aclModeSet = BlocklistMode ->
                      <<"blocklist", aclLast.addr, aclLast.policy>> \notin aclAdded
                [] aclModeSet = AllowlistMode ->
                      <<"allowlist", aclLast.addr, aclLast.policy>> \in aclAdded
                [] OTHER -> TRUE

\* allowed in allowlist mode although the same policy is in the blocklist too
C16_Witness ==
    /\ aclOps > 0
    /\ aclLast.op = "IsActionAllowed"
    /\ aclModeSet = AllowlistMode
    /\ aclLast.allowed
    /\ <<"blocklist", aclLast.addr, aclLast.policy>> \in aclAdded

\* ------------------------------------------- RPC: ShouldRejectLowGasPrice
\* every group of variables but the gas price check's
exceptGas == <<treeVars, callVars, scsVars, memVars, bufVars, aclVars, txVars, bpVars, runVars, dsVars>>

\* Largest transaction price looked at.
MaxGasPrice == 201

TxPrices == 0..MaxGasPrice
LowestPrices == {90, 100, 200}

\* A tolerance is a float64; the model writes the float64 nearest to k/1000 as
\* the integer k. The tolerances looked at: none, whole percents, the whole
\* percents 55% and 56%, and a half percent.
Tolerances == {0, 100, 105, 250, 550, 560, 1000}

\* uint64(100 - rejectLowGasPriceTolerance*100) in float64 arithmetic, for the
\* float64 nearest to k/1000 with 0 <= k <= 1000: the product and the
\* difference are rounded to float64 and the conversion truncates. The
\* difference is the exact (1000 - k)/10 except for 0.55 and 0.56, where it
\* is 44.99999999999999 and 43.99999999999999.
Float64Modifier(k) ==
    IF k = 550 THEN 44
    ELSE IF k = 560 THEN 43
    ELSE (1000 - k) \div 10

ShouldRejectLowGasPrice(txPrice, lowestAllowed, k) ==
    LET finalCheck == IF k > 0
                      THEN (lowestAllowed * Float64Modifier(k)) \div 100
                      ELSE lowestAllowed
    IN [rejected |-> txPrice < finalCheck, lowestAllowed |-> lowestAllowed]

GasCall ==
    /\ gpPc = "called"
    /\ LET r == ShouldRejectLowGasPrice(gpTxPrice, gpLowest, gpTolerance)
       IN /\ gpRejected' = r.rejected
          /\ gpLowestAfter' = r.lowestAllowed
    /\ gpPc' = "returned"
    /\ UNCHANGED <<exceptGas, gpTxPrice, gpLowest, gpTolerance>>

InitGas ==
    /\ InitTreeVars
    /\ CallIdle
    /\ ScsIdle
    /\ MemIdle
    /\ BufIdle
    /\ AclIdle
    /\ TxIdle
    /\ BpIdle
    /\ RunIdle
    /\ DsIdle
    /\ gpTxPrice \in TxPrices
    /\ gpLowest \in LowestPrices
    /\ gpTolerance \in Tolerances
    /\ gpPc = "called"
    /\ gpRejected = FALSE
    /\ gpLowestAfter = gpLowest

NextGas == GasCall

SpecGas == InitGas /\ [][NextGas]_vars

\* floor(lowest * (100 - 100*tolerance) / 100) for the tolerance k/1000
ToleranceThreshold(lowest, k) == (lowest * (1000 - k)) \div 1000

\* C17: the price is rejected iff it is below lowest when the tolerance is 0,
\* and iff it is below floor(lowest * (100 - 100*tolerance) / 100) when the
\* tolerance is positive; a price equal to the threshold is not rejected and
\* lowestAllowed is not modified.
C17_RejectedIffBelowThreshold ==
    gpPc = "returned" =>
        /\ gpRejected = (gpTxPrice < IF gpTolerance = 0 THEN gpLowest
                                     ELSE ToleranceThreshold(gpLowest, gpTolerance))
        /\ gpLowestAfter = gpLowest

\* ------------------------------------------------ RPC: SendRawTransaction
\* every group of variables but SendRawTransaction's
exceptTx == <<treeVars, callVars, scsVars, memVars, bufVars, aclVars, gasVars, bpVars, runVars, dsVars>>

LegacyTxType == "legacy"
DynamicFeeTxType == "dynamicFee"
BlobTxType == "blob"
TxTypes == {LegacyTxType, DynamicFeeTxType, BlobTxType}

\* the calls that can fail before the transaction is looked at
SetupCalls == {"BeginRo", "chainConfig", "DecodeWrappedTransaction",
               "GetLatestFinishedBlockNumber", "blockByNumber", "Sender"}

\* A call: the transaction (its type, whether its signature is EIP-155
\* protected, whether its chain id is the chain's; only a legacy transaction
\* can be unprotected), the flags of the API, and the outcomes of the calls
\* SendRawTransaction makes.
TxInputs ==
    {in \in [failAt : SetupCalls \cup {"none"},
             isZkNonSequencer : BOOLEAN,
             type : TxTypes,
             protected : BOOLEAN,
             chainIdMatches : BOOLEAN,
             isLondon : BOOLEAN,
             priceTooLow : BOOLEAN,
             feeExceedsCap : BOOLEAN,
             AllowPreEIP155Transactions : BOOLEAN,
             AllowUnprotectedTxs : BOOLEAN,
             badTx : BOOLEAN,
             poolResult : {"error", "rejected", "SUCCESS"}] :
        in.type # LegacyTxType => in.protected}

TxReturn(hash, err, pool, proxied) == [hash |-> hash, err |-> err, pool |-> pool, proxied |-> proxied]

\* a rule that does not look at AllowUnprotectedTxs
ReplayProtectionIgnoresAllowUnprotected(in) ==
    ~in.AllowPreEIP155Transactions /\ ~in.protected

\* if !api.AllowPreEIP155Transactions && !txn.Protected() && !api.AllowUnprotectedTxs
ReplayProtectionRejects(in) ==
    ~in.AllowPreEIP155Transactions /\ ~in.protected /\ ~in.AllowUnprotectedTxs

\* the checks in the order of the code; pool says whether txPool.Add was called
SendRawTransactionResult(in) ==
    IF in.failAt \in {"BeginRo", "chainConfig"} THEN TxReturn(FALSE, in.failAt, FALSE, FALSE)
    ELSE IF in.isZkNonSequencer THEN TxReturn(TRUE, "nil", FALSE, TRUE)
    ELSE IF in.failAt # "none" THEN TxReturn(FALSE, in.failAt, FALSE, FALSE)
    ELSE IF in.type # LegacyTxType /\ ~in.isLondon
    THEN TxReturn(FALSE, "only legacy transactions are supported", FALSE, FALSE)
    ELSE IF in.type = BlobTxType
    THEN TxReturn(FALSE, "blob transactions are not supported", FALSE, FALSE)
    ELSE IF in.priceTooLow THEN TxReturn(FALSE, "transaction price is too low", FALSE, FALSE)
    ELSE IF in.feeExceedsCap THEN TxReturn(FALSE, "tx fee exceeds the configured cap", FALSE, FALSE)
    ELSE IF ReplayProtectionRejects(in)
    THEN TxReturn(FALSE, "only replay-protected (EIP-155) transactions allowed over RPC", FALSE, FALSE)
    ELSE IF in.protected /\ ~in.chainIdMatches THEN TxReturn(FALSE, "invalid chain id", FALSE, FALSE)
    ELSE IF in.badTx
    THEN TxReturn(FALSE, "transaction uses too many counters to fit into a batch", FALSE, FALSE)
    ELSE IF in.poolResult = "error" THEN TxReturn(FALSE, "txPool.Add", TRUE, FALSE)
    ELSE IF in.poolResult # "SUCCESS" THEN TxReturn(TRUE, "not imported", TRUE, FALSE)
    ELSE TxReturn(TRUE, "nil", TRUE, FALSE)

SendRawTransaction ==
    /\ txPc = "called"
    /\ txOut' = SendRawTransactionResult(txIn)
    /\ txPc' = "returned"
    /\ UNCHANGED <<exceptTx, txIn>>

InitTx ==
    /\ InitTreeVars
    /\ CallIdle
    /\ ScsIdle
    /\ MemIdle
    /\ BufIdle
    /\ AclIdle
    /\ GasIdle
    /\ BpIdle
    /\ RunIdle
    /\ DsIdle
    /\ txIn \in TxInputs
    /\ txPc = "called"
    /\ txOut = TxReturn(FALSE, "nil", FALSE, FALSE)

NextTx == SendRawTransaction

SpecTx == InitTx /\ [][NextTx]_vars

\* the transaction gets as far as the replay-protection check
ReachesReplayCheck(in) ==
    /\ in.failAt = "none"
    /\ ~in.isZkNonSequencer
    /\ in.type # LegacyTxType => (in.isLondon /\ in.type # BlobTxType)
    /\ ~in.priceTooLow
    /\ ~in.feeExceedsCap

\* nothing after the replay-protection check refuses the transaction
ValidAfterReplayCheck(in) ==
    /\ in.protected => in.chainIdMatches
    /\ ~in.badTx
    /\ in.poolResult = "SUCCESS"

ReplayError == "only replay-protected (EIP-155) transactions allowed over RPC"

\* C18: on a sequencer, an unprotected transaction that gets to the
\* replay-protection check is refused by it iff AllowPreEIP155Transactions and
\* AllowUnprotectedTxs are both false, and with both false no unprotected
\* transaction is handed to the pool; with AllowUnprotectedTxs an otherwise
\* valid unprotected legacy transaction is added to the pool and its hash
\* returned.
C18_ReplayProtectionRule ==
    (txPc = "returned" /\ ~txIn.isZkNonSequencer /\ ~txIn.protected) =>
        /\ ReachesReplayCheck(txIn) =>
              ((txOut.err = ReplayError)
                  <=> (~txIn.AllowPreEIP155Transactions /\ ~txIn.AllowUnprotectedTxs))
        /\ (~txIn.AllowPreEIP155Transactions /\ ~txIn.AllowUnprotectedTxs) => ~txOut.pool
        /\ (txIn.AllowUnprotectedTxs /\ ReachesReplayCheck(txIn) /\ ValidAfterReplayCheck(txIn))
              => (txOut.pool /\ txOut.hash /\ txOut.err = "nil")

\* an unprotected legacy transaction accepted because of AllowUnprotectedTxs alone
C18_Witness ==
    /\ txPc = "returned"
    /\ ~txIn.isZkNonSequencer
    /\ ~txIn.protected
    /\ txIn.type = LegacyTxType
    /\ ~txIn.AllowPreEIP155Transactions
    /\ txIn.AllowUnprotectedTxs
    /\ txOut.pool
    /\ txOut.hash
    /\ txOut.err = "nil"

\* ------------------------------------------------------ BatchesProcessor
\* every group of variables but the BatchesProcessor's
exceptBp == <<treeVars, callVars, scsVars, memVars, bufVars, aclVars, gasVars, txVars, runVars, dsVars>>

\* Number of ProcessEntry calls in one behaviour, and the highest block number
\* the stream holds.
MaxBpCalls == 2
MaxBlockNo == 3

emptyHash == 0
BlockHashes == {emptyHash, 1, 2}
BlockNos == 0..MaxBlockNo
BatchNos == {1, 2}
ForkIds == {1, 2}
\* the state root of every block of the stream
StreamStateRoot == 7

\* the calls to the databases that can fail
FailPoints == {"none", "SaveStageProgress", "WriteForkId", "GetBatchNoByL2Block",
               "ReadCanonicalHash", "unwindFn", "WriteHeader", "WriteBody"}

\* the blocks of the stream; the fork id of batch 1 is 1, that of batch 2 is 2
FullL2Blocks ==
    {e \in [kind : {"FullL2Block"}, L2BlockNumber : BlockNos, L2Blockhash : BlockHashes,
            BatchNumber : BatchNos, ForkId : ForkIds] : e.ForkId = e.BatchNumber}
OtherEntries == {[kind |-> k] : k \in {"BatchStart", "BatchEnd", "GerUpdate", "nil", "unknown"}}

BpOut(p, db, log, endLoop, err) ==
    [p |-> p, db |-> db, log |-> log, endLoop |-> endLoop, err |-> err]

\* p.unwind(blockNum): unwindFn is called; its error comes back, else the
\* caller returns ErrorTriggeredUnwind
BpUnwind(p, db, log, blockNum, fail) ==
    BpOut(p, db, [log EXCEPT !.unwinds = Append(@, blockNum)], FALSE,
          IF fail = "unwindFn" THEN "unwindFn" ELSE "ErrorTriggeredUnwind")

\* ErigonDb.WriteHeader: the header and the canonical hash of its number
WriteHeader(db, number, hash, parentHash) ==
    [db EXCEPT !.canonical[number] = hash,
               !.headers[number] = [hash |-> hash, parentHash |-> parentHash]]

\* writeL2Block: header, body, block batch; each call is logged as it is made
writeL2Block(p, db, log, e, parentHash, fail) ==
    LET headerLog == [log EXCEPT !.headers =
                        Append(@, [number |-> e.L2BlockNumber, hash |-> e.L2Blockhash,
                                   parentHash |-> parentHash, height |-> p.lastBlockHeight,
                                   lastBlockHash |-> p.lastBlockHash,
                                   canonicalBefore |-> db.canonical[e.L2BlockNumber - 1],
                                   ok |-> FALSE])]
        bodyLog == [headerLog EXCEPT !.bodies = Append(@, e.L2BlockNumber)]
        headerDb == WriteHeader(db, e.L2BlockNumber, e.L2Blockhash, parentHash)
    IN IF fail = "WriteHeader" THEN [db |-> db, log |-> headerLog, err |-> "write header error"]
       ELSE IF fail = "WriteBody"
       THEN [db |-> headerDb, log |-> bodyLog, err |-> "write body error"]
       ELSE [db |-> [headerDb EXCEPT !.blockBatch[e.L2BlockNumber] = e.BatchNumber],
             log |-> [bodyLog EXCEPT !.headers[Len(bodyLog.headers)].ok = TRUE],
             err |-> "nil"]

\* a parent hash read at the block's own number
ParentHashOfOwnNumber(p, db, e) == db.canonical[e.L2BlockNumber]

\* blockEntry.ParentHash: the last block hash, or the canonical hash of the
\* block before when no last block hash is known
ParentHashOf(p, db, e) ==
    IF p.lastBlockHash # emptyHash THEN p.lastBlockHash
    ELSE db.canonical[e.L2BlockNumber - 1]

\* a processor that takes every block above the last one
IsGapNever(p, e) == FALSE

\* a processor that lets one missing block pass
IsGapBeyondTwo(p, e) == e.L2BlockNumber > p.lastBlockHeight + 2

\* check for sequential block numbers
IsGap(p, e) == e.L2BlockNumber > p.lastBlockHeight + 1

\* a processor that never finds the parent hashes different
ParentHashMismatchNever(p, db, e) == FALSE

ParentHashMismatch(p, db, e) ==
    LET dbParentBlockHash == IF e.L2BlockNumber > 1 THEN db.canonical[p.lastBlockHeight]
                             ELSE emptyHash
    IN p.lastBlockHeight > 0 /\ dbParentBlockHash # p.lastBlockHash

\* a processor that skips every block at or below the stage progress
AlreadyProcessedSkipAlways(p, db, e) == TRUE

\* the block is the stage progress block, with the batch number stored for it
AlreadyProcessedSkip(p, db, e) ==
    /\ e.L2BlockNumber = p.stageProgressBlockNo
    /\ db.blockBatch[e.L2BlockNumber] = e.BatchNumber

debugEndLoop(p, e) ==
    \/ p.debugBlockLimit > 0 /\ e.L2BlockNumber > p.debugBlockLimit
    \/ /\ p.debugStep > 0 /\ p.debugStepAfter > 0 /\ e.L2BlockNumber > p.debugStepAfter
       /\ e.L2BlockNumber % p.debugStep = 0

\* the block is the next one: batch boundary, parent hash, writeL2Block, progress
writeNextBlock(p, db, log, e, fail) ==
    LET p2 == [p EXCEPT
                 !.highestHashableL2BlockNo =
                     IF e.BatchNumber > p.highestSeenBatchNo THEN e.L2BlockNumber - 1 ELSE @,
                 !.highestSeenBatchNo = e.BatchNumber]
        db2 == IF e.BatchNumber = p.highestVerifiedBatch
               THEN [db EXCEPT !.forkchoiceFinalized = e.L2Blockhash] ELSE db
        w == writeL2Block(p2, db2, log, e, ParentHashOf(p2, db2, e), fail)
        p3 == [p2 EXCEPT !.lastBlockHash = e.L2Blockhash,
                         !.lastBlockRoot = StreamStateRoot,
                         !.lastBlockHeight = e.L2BlockNumber,
                         !.blocksWritten = @ + 1,
                         !.dsProgress = e.L2BlockNumber]
    IN IF p.lastBlockHash = emptyHash /\ fail = "ReadCanonicalHash"
       THEN BpOut(p2, db2, log, FALSE, "failed to get genesis header")
       ELSE IF w.err # "nil" THEN BpOut(p2, w.db, w.log, FALSE, "writeL2Block error")
       ELSE BpOut(p3, w.db, w.log,
                  IF p.debugBlockLimit = 0 THEN FALSE ELSE debugEndLoop(p, e), "nil")

\* processFullBlock after the fork id update
processBlockNumber(p, db, log, e, fail) ==
    IF e.L2BlockNumber = 0 THEN BpOut(p, db, log, FALSE, "nil")
    ELSE IF e.L2BlockNumber <= p.stageProgressBlockNo
    THEN IF fail = "GetBatchNoByL2Block" THEN BpOut(p, db, log, FALSE, "GetBatchNoByL2Block")
         ELSE IF AlreadyProcessedSkip(p, db, e)
         THEN BpOut(p, db, log, FALSE, "nil")
         ELSE BpUnwind(p, db, log, e.L2BlockNumber, fail)
    ELSE IF e.L2BlockNumber > 1 /\ fail = "ReadCanonicalHash"
    THEN BpOut(p, db, log, FALSE, "failed to retrieve parent block hash")
    ELSE IF ParentHashMismatch(p, db, e)
    THEN BpUnwind(p, db, log, e.L2BlockNumber - 1, fail)
    ELSE IF e.L2BlockNumber < p.lastBlockHeight + 1
    THEN BpUnwind(p, db, log, e.L2BlockNumber, fail)
    ELSE IF IsGap(p, e) THEN BpOut(p, db, log, FALSE, "ErrorSkippedBlock")
    ELSE writeNextBlock(p, db, log, e, fail)

processFullBlock(p, db, log, e, fail) ==
    LET forkUpdate == e.BatchNumber > p.highestSeenBatchNo /\ p.lastForkId < e.ForkId
    IN IF p.syncBlockLimit > 0 /\ e.L2BlockNumber >= p.syncBlockLimit
       THEN BpOut(p, db, log, TRUE, "nil")
       ELSE IF forkUpdate /\ fail = "SaveStageProgress"
       THEN BpOut(p, db, log, FALSE, "save stage progress error")
       ELSE IF forkUpdate /\ fail = "WriteForkId"
       THEN BpOut([p EXCEPT !.lastForkId = e.ForkId],
                  [db EXCEPT !.forkIdProgress = e.ForkId], log, FALSE, "write fork id error")
       ELSE IF forkUpdate
       THEN processBlockNumber([p EXCEPT !.lastForkId = e.ForkId],
                               [db EXCEPT !.forkIdProgress = e.ForkId],
                               log, e, fail)
       ELSE processBlockNumber(p, db, log, e, fail)

\* what ProcessEntry does with an entry of each type
ProcessEntryResult(p, db, log, e, fail) ==
    CASE e.kind = "FullL2Block" -> processFullBlock(p, db, log, e, fail)
      [] e.kind = "BatchEnd" ->
            BpOut(p, [db EXCEPT !.batchEnds = @ \cup {p.lastBlockHeight}], log, FALSE, "nil")
      [] e.kind \in {"BatchStart", "GerUpdate"} -> BpOut(p, db, log, FALSE, "nil")
      [] e.kind = "nil" -> BpOut(p, db, log, TRUE, "nil")
      [] OTHER -> BpOut(p, db, log, FALSE, "unknown entry type")

ProcessEntry(e, fail) ==
    /\ bpCalls < MaxBpCalls
    /\ bpCalls' = bpCalls + 1
    /\ LET r == ProcessEntryResult(bp, bpDb, bpLog, e, fail)
       IN /\ bp' = r.p
          /\ bpDb' = r.db
          /\ bpLog' = r.log
          /\ bpRet' = [endLoop |-> r.endLoop, err |-> r.err, kind |-> e.kind,
                       number |-> IF e.kind = "FullL2Block" THEN e.L2BlockNumber ELSE 0,
                       batch |-> IF e.kind = "FullL2Block" THEN e.BatchNumber ELSE 0]
    /\ UNCHANGED exceptBp

\* syncBlockLimit, debugBlockLimit, debugStep, debugStepAfter: all off, or a
\* sync limit at the last block with the debug bisection on
LimitSettings == {<<0, 0, 0, 0>>, <<MaxBlockNo, 1, 2, 1>>}

\* NewBatchesProcessor over a database that holds the blocks up to the stage
\* progress: block 0 and, when the progress is 1, block 1 of batch 1
InitBp ==
    /\ InitTreeVars
    /\ CallIdle
    /\ ScsIdle
    /\ MemIdle
    /\ BufIdle
    /\ AclIdle
    /\ GasIdle
    /\ TxIdle
    /\ RunIdle
    /\ DsIdle
    /\ \E stageProgressBlockNo \in {0, 1}, lastProcessedBlockHash \in {emptyHash, 1},
          dbHash \in {1, 2}, limits \in LimitSettings :
          /\ bp = [stageProgressBlockNo |-> stageProgressBlockNo,
                   lastBlockHeight |-> stageProgressBlockNo,
                   highestSeenBatchNo |-> stageProgressBlockNo,
                   highestVerifiedBatch |-> 1,
                   lastBlockHash |-> lastProcessedBlockHash,
                   lastBlockRoot |-> emptyHash,
                   lastForkId |-> 1,
                   highestHashableL2BlockNo |-> 0,
                   blocksWritten |-> 0,
                   dsProgress |-> 0,
                   syncBlockLimit |-> limits[1],
                   debugBlockLimit |-> limits[2],
                   debugStep |-> limits[3],
                   debugStepAfter |-> limits[4]]
          /\ bpDb = [canonical |-> [n \in BlockNos |-> IF n <= stageProgressBlockNo
                                                      THEN dbHash ELSE emptyHash],
                     headers |-> [n \in BlockNos |-> <<>>],
                     blockBatch |-> [n \in BlockNos |-> IF 0 < n /\ n <= stageProgressBlockNo
                                                       THEN 1 ELSE 0],
                     forkIdProgress |-> 1,
                     forkchoiceFinalized |-> emptyHash,
                     batchEnds |-> {}]
    /\ bpLog = [unwinds |-> <<>>, headers |-> <<>>, bodies |-> <<>>]
    /\ bpRet = [endLoop |-> FALSE, err |-> "nil", kind |-> "none", number |-> 0, batch |-> 0]
    /\ bpCalls = 0

NextBp ==
    \E e \in FullL2Blocks \cup OtherEntries, fail \in FailPoints : ProcessEntry(e, fail)

SpecBp == InitBp /\ [][NextBp]_vars

\* the WriteHeader calls of blocks that were written, in order
WrittenBlocks == SelectSeq(bpLog.headers, LAMBDA w : w.ok)

\* C19: a block is handed to writeL2Block only when its number is
\* lastBlockHeight + 1; lastBlockHeight is the initial stage progress plus the
\* number of blocks written, and it never decreases.
C19_ConsecutiveWrites ==
    /\ [](bpCalls > 0 =>
            /\ \A i \in DOMAIN bpLog.headers :
                  bpLog.headers[i].number = bpLog.headers[i].height + 1
            /\ bp.lastBlockHeight = bp.stageProgressBlockNo + bp.blocksWritten
            /\ bp.blocksWritten = Len(WrittenBlocks))
    /\ [][bpCalls > 0 => bp'.lastBlockHeight >= bp.lastBlockHeight]_vars

\* every call has written a block
C19_Witness ==
    /\ bpCalls = MaxBpCalls
    /\ bp.blocksWritten = MaxBpCalls
    /\ bp.lastBlockHeight = bp.stageProgressBlockNo + MaxBpCalls

\* C20: a block written after another block is stored with the hash of the
\* block written before it as its parent hash; the parent hash is read from
\* the canonical hashes of the database only when lastBlockHash is the empty
\* hash, and then it is the canonical hash of the block before.
C20_ParentHashLinkage ==
    bpCalls > 0 =>
        /\ \A i \in DOMAIN WrittenBlocks :
              i > 1 => WrittenBlocks[i].parentHash = WrittenBlocks[i - 1].hash
        /\ \A i \in DOMAIN bpLog.headers :
              LET w == bpLog.headers[i]
              IN w.parentHash = IF w.lastBlockHash # emptyHash THEN w.lastBlockHash
                                ELSE w.canonicalBefore

\* a second block written with the first one's hash as its parent, and a first
\* block whose parent came from the database
C20_Witness ==
    /\ bpCalls > 0
    /\ Len(WrittenBlocks) >= 2
    /\ WrittenBlocks[1].lastBlockHash = emptyHash
    /\ WrittenBlocks[1].parentHash # emptyHash
    /\ WrittenBlocks[1].parentHash = WrittenBlocks[1].canonicalBefore
    /\ WrittenBlocks[2].parentHash = WrittenBlocks[1].hash
    /\ WrittenBlocks[2].parentHash # WrittenBlocks[1].parentHash

\* --------------------------------- BatchesProcessor: unwinds and skips
\* the step is a ProcessEntry of a FullL2Block
BlockStep == bpCalls' = bpCalls + 1 /\ bpRet'.kind = "FullL2Block"

\* the block of the step is at or above the sync block limit
AtSyncLimit == bp.syncBlockLimit > 0 /\ bpRet'.number >= bp.syncBlockLimit

\* the step called unwindFn once, with blockNum
UnwoundOnce(blockNum) == bpLog'.unwinds = Append(bpLog.unwinds, blockNum)

\* the step called neither WriteHeader nor WriteBody
NothingWritten == bpLog'.headers = bpLog.headers /\ bpLog'.bodies = bpLog.bodies

\* the block of the step is above the stage progress and the canonical hash
\* of lastBlockHeight is not lastBlockHash
MismatchCase ==
    /\ BlockStep
    /\ bpRet'.number > bp.stageProgressBlockNo
    /\ bp.lastBlockHeight > 0
    /\ bpDb.canonical[bp.lastBlockHeight] # bp.lastBlockHash

MismatchLeavesBlockState ==
    /\ NothingWritten
    /\ bp'.lastBlockHeight = bp.lastBlockHeight
    /\ bp'.lastBlockHash = bp.lastBlockHash
    /\ bp'.blocksWritten = bp.blocksWritten

AlreadyProcessedCase ==
    /\ BlockStep
    /\ 0 < bpRet'.number
    /\ bpRet'.number <= bp.stageProgressBlockNo

\* the block of the step is the stage progress block and the database holds
\* the entry's batch number for it
SameBlockAndBatch ==
    /\ bpRet'.number = bp.stageProgressBlockNo
    /\ bpDb.blockBatch[bpRet'.number] = bpRet'.batch

NoUnwind == bpLog'.unwinds = bpLog.unwinds

GapCase ==
    /\ BlockStep
    /\ bpRet'.number > bp.lastBlockHeight + 1
    /\ ~(bp.lastBlockHeight > 0 /\ bpDb.canonical[bp.lastBlockHeight] # bp.lastBlockHash)

GapLeavesBlockState ==
    /\ NothingWritten
    /\ bp'.lastBlockHeight = bp.lastBlockHeight
    /\ bp'.lastBlockHash = bp.lastBlockHash
    /\ bp'.lastBlockRoot = bp.lastBlockRoot
    /\ bp'.blocksWritten = bp.blocksWritten
    /\ bp'.highestSeenBatchNo = bp.highestSeenBatchNo
    /\ bp'.highestHashableL2BlockNo = bp.highestHashableL2BlockNo

BpMax(a, b) == IF a >= b THEN a ELSE b

\* the step wrote a block
BlockWritten == bp'.blocksWritten = bp.blocksWritten + 1

\* C29: HighestSeenBatchNumber() never decreases, and it is the maximum of
\* its initial value and the BatchNumber of every block written so far: a
\* ProcessEntry that writes a block raises it to that block's batch number
\* if that is higher, and no other call changes it.
C29_HighestSeenBatchMonotonic ==
    [][/\ bp'.highestSeenBatchNo >= bp.highestSeenBatchNo
       /\ bp'.highestSeenBatchNo =
             IF BlockWritten THEN BpMax(bp.highestSeenBatchNo, bpRet'.batch)
             ELSE bp.highestSeenBatchNo]_vars

\* ------------------------------- SpawnZkIntermediateHashesStage: one run
\* every group of variables but the run's
exceptRun == <<treeVars, callVars, scsVars, memVars, bufVars, aclVars, gasVars, txVars, bpVars, dsVars>>

EmptyRoot == 0
TrieRoots == {1, 2}

\* the header of block `to`: none, or one with a state root
Headers == {[nil |-> TRUE, Root |-> EmptyRoot]} \cup {[nil |-> FALSE, Root |-> r] : r \in TrieRoots}

\* a stage that increments only on the flag
ShouldIncrementByFlag(cfg) == cfg.IncrementTreeAlways

\* shouldIncrement; the subtraction is guarded by to > s.BlockNumber
ShouldIncrement(cfg) ==
    LET shouldRegenerate == /\ cfg.to > cfg.BlockNumber
                            /\ cfg.to - cfg.BlockNumber > cfg.RebuildTreeAfter
    IN cfg.IncrementTreeAlways \/ (cfg.BlockNumber > 0 /\ ~shouldRegenerate)

\* a stage that takes every root
RootMatchesAny(r, header) == TRUE

\* root != expectedRootHash
RootMatches(r, header) == r = header.Root

\* a return with err; the deferred function ends the process when the debug
\* limit is set and err is not nil
SpawnReturn(out, err) ==
    [out EXCEPT !.err = err, !.exit = spCfg.DebugLimit > 0 /\ err # "nil"]

\* up to the choice of the path; OpenBatch on the increment path
SpawnStart ==
    /\ spPc = "start"
    /\ IF spCfg.BlockNumber = spCfg.to
       THEN /\ spPc' = "returned"
            /\ spOut' = SpawnReturn(spOut, "nil")
            /\ UNCHANGED spCalls
       ELSE /\ spPc' = "path"
            /\ spCalls' = IF ShouldIncrement(spCfg) THEN Append(spCalls, "OpenBatch")
                          ELSE spCalls
            /\ UNCHANGED spOut
    /\ UNCHANGED <<spCfg, exceptRun>>

\* zkIncrementIntermediateHashes or regenerateIntermediateHashes returns
PathReturns(r, ok) ==
    /\ spPc = "path"
    /\ IF ok
       THEN spPc' = "checkRoot" /\ spOut' = [spOut EXCEPT !.root = r]
       ELSE spPc' = "returned" /\ spOut' = SpawnReturn(spOut, "path error")
    /\ UNCHANGED <<spCfg, spCalls, exceptRun>>

\* the check of the root against the header of block `to`
SpawnCheckRoot(headerErr) ==
    /\ spPc = "checkRoot"
    /\ IF ~spCfg.checkRoot
       THEN spPc' = "finish" /\ UNCHANGED <<spCalls, spOut>>
       ELSE IF headerErr
       THEN /\ spPc' = "returned"
            /\ spOut' = SpawnReturn(spOut, "HeaderByNumber")
            /\ UNCHANGED spCalls
       ELSE IF spCfg.header.nil
       THEN /\ spPc' = "returned"
            /\ spOut' = SpawnReturn(spOut, "no header found")
            /\ UNCHANGED spCalls
       ELSE IF ~RootMatches(spOut.root, spCfg.header)
       THEN /\ spPc' = "returned"
            /\ spCalls' = IF ShouldIncrement(spCfg) THEN Append(spCalls, "RollbackBatch")
                          ELSE spCalls
            /\ spOut' = IF spCfg.DebugLimit > 0 THEN SpawnReturn(spOut, "wrong trie root")
                        ELSE [spOut EXCEPT !.err = "panic"]
       ELSE spPc' = "finish" /\ UNCHANGED <<spCalls, spOut>>
    /\ UNCHANGED <<spCfg, exceptRun>>

\* CommitBatch on the increment path, s.Update(tx, to), Commit of an own transaction
SpawnFinish(fail) ==
    /\ spPc = "finish"
    /\ spPc' = "returned"
    /\ LET inc == ShouldIncrement(spCfg)
           c1 == IF inc THEN Append(spCalls, "CommitBatch") ELSE spCalls
           c2 == Append(c1, "Update")
           c3 == IF spCfg.useExternalTx THEN c2 ELSE Append(c2, "Commit")
           updated == [spOut EXCEPT !.progress = spCfg.to]
       IN IF inc /\ fail = "CommitBatch"
          THEN spCalls' = c1 /\ spOut' = SpawnReturn(spOut, "CommitBatch")
          ELSE IF fail = "Update"
          THEN spCalls' = c2 /\ spOut' = SpawnReturn(spOut, "Update")
          ELSE IF ~spCfg.useExternalTx /\ fail = "Commit"
          THEN spCalls' = c3 /\ spOut' = SpawnReturn(updated, "Commit")
          ELSE spCalls' = c3 /\ spOut' = SpawnReturn([updated EXCEPT !.committed = TRUE], "nil")
    /\ UNCHANGED <<spCfg, exceptRun>>

InitRun ==
    /\ InitTreeVars
    /\ CallIdle
    /\ ScsIdle
    /\ MemIdle
    /\ BufIdle
    /\ AclIdle
    /\ GasIdle
    /\ TxIdle
    /\ BpIdle
    /\ DsIdle
    /\ spCfg \in [IncrementTreeAlways : BOOLEAN, BlockNumber : 0..MaxBlock, to : 0..MaxBlock,
                  RebuildTreeAfter : 0..MaxBlock, checkRoot : BOOLEAN, DebugLimit : {0, 1},
                  useExternalTx : BOOLEAN, header : Headers]
    /\ spPc = "start"
    /\ spCalls = <<>>
    /\ spOut = [root |-> EmptyRoot, err |-> "nil", exit |-> FALSE,
                progress |-> spCfg.BlockNumber, committed |-> FALSE]

NextRun ==
    \/ SpawnStart
    \/ \E r \in TrieRoots, ok \in BOOLEAN : PathReturns(r, ok)
    \/ \E headerErr \in BOOLEAN : SpawnCheckRoot(headerErr)
    \/ \E fail \in {"none", "CommitBatch", "Update", "Commit"} : SpawnFinish(fail)

SpecRun == InitRun /\ [][NextRun]_vars

SpawnCalled(c) == \E i \in 1..Len(spCalls) : spCalls[i] = c
SpawnCallCount(c) == Cardinality({i \in 1..Len(spCalls) : spCalls[i] = c})

\* the computed root is the state root of the header of block `to`
RootAsInHeader == ~spCfg.header.nil /\ spOut.root = spCfg.header.Root

IncrementPathTaken ==
    /\ spPc # "start"
    /\ spCfg.BlockNumber # spCfg.to
    /\ \/ spCfg.IncrementTreeAlways
       \/ spCfg.BlockNumber > 0 /\ spCfg.to - spCfg.BlockNumber <= spCfg.RebuildTreeAfter

\* C25: OpenBatch is called iff the increment path is taken; CommitBatch is
\* called at most once in a run, only after OpenBatch and only after the
\* root check passed or was off; a run that called RollbackBatch does not
\* call CommitBatch.
C25_BatchProtocol ==
    /\ SpawnCalled("OpenBatch") <=> IncrementPathTaken
    /\ SpawnCallCount("OpenBatch") <= 1
    /\ SpawnCallCount("CommitBatch") <= 1
    /\ \A i \in 1..Len(spCalls) :
          spCalls[i] = "CommitBatch" =>
              /\ \E j \in 1..(i - 1) : spCalls[j] = "OpenBatch"
              /\ ~spCfg.checkRoot \/ RootAsInHeader
    /\ ~(SpawnCalled("RollbackBatch") /\ SpawnCalled("CommitBatch"))
    /\ SpawnCalled("RollbackBatch") => spCfg.checkRoot /\ ~RootAsInHeader

\* an increment run without the flag, over an accepted root: OpenBatch,
\* CommitBatch, Update
C25_Witness ==
    /\ spPc = "returned"
    /\ ~spCfg.IncrementTreeAlways
    /\ spCfg.BlockNumber > 0
    /\ spCfg.to > spCfg.BlockNumber
    /\ spCfg.checkRoot
    /\ RootAsInHeader
    /\ spCalls = <<"OpenBatch", "CommitBatch", "Update">>
    /\ spOut.err = "nil"

\* ------------------------------------- writeBlockDetailsToDatastream
\* every group of variables but the stream writer's
exceptDs == <<treeVars, callVars, scsVars, memVars, bufVars, aclVars, gasVars, txVars, bpVars,
              runVars>>

\* Number of bundles handed to one call.
MaxBundles == 2

DsBatchNos == {1, 2}
DsFirstBlocks == {1, 2}
DsBlockCounts == {1, 2}

\* a bundle: the validity of the response, and the batch and blocks of the request
VerifierBundles ==
    [Valid : BOOLEAN, BatchNumber : DsBatchNos, first : DsFirstBlocks, count : DsBlockCounts]

GetFirstBlockNumber(b) == b.first
GetLastBlockNumber(b) == b.first + b.count - 1

\* the calls of one iteration that can fail; "notFound" is CheckBatchNoByL2Block
\* returning found = false with a nil error
DsFailPoints == {"none", "GetHighestClosedBatch", "GetHighestBatchNumber",
                 "GetBatchLocalExitRoot", "WriteBatchEnd", "ReadBlockByNumber",
                 "CheckBatchNoByL2Block", "notFound", "WriteBlockWithBatchStartToStream",
                 "SaveStageProgress"}

\* the stream server writes a batch end: the batch is closed
WriteBatchEnd(stream, batchToClose, blockToCloseAt) ==
    [stream EXCEPT !.highestClosed = batchToClose,
                   !.entries = Append(@, [type |-> "BatchEnd", batch |-> batchToClose,
                                          block |-> blockToCloseAt])]

\* the stream server writes a block, after a batch start when the block
\* before it is of another batch
WriteBlockWithBatchStartToStream(stream, entry) ==
    [stream EXCEPT !.highestStarted = IF entry.prevBatch # entry.batch THEN entry.batch ELSE @,
                   !.entries = Append(@, entry)]

\* a writer that never closes the last batch of the stream
NeedsFinalizeNever(batchNumber, highestStartedBatch, highestClosedBatch) == FALSE

\* isCurrentBatchHigherThanLastInDatastream && !isLastBatchInDatastremClosed
NeedsFinalize(batchNumber, highestStartedBatch, highestClosedBatch) ==
    batchNumber > highestStartedBatch /\ highestClosedBatch # highestStartedBatch

\* finalizeLastBatchInDatastream: the error, or the stream with the batch end
finalizeLastBatchInDatastream(stream, batchToClose, blockToCloseAt, fail) ==
    IF fail \in {"GetBatchLocalExitRoot", "WriteBatchEnd"}
    THEN [stream |-> stream, err |-> fail]
    ELSE [stream |-> WriteBatchEnd(stream, batchToClose, blockToCloseAt), err |-> "nil"]

\* one iteration of the loop over verifiedBundles; previousBlockBatchNumber
\* is what the database holds for the block before a single-block request
DsIteration(fail, dbPreviousBatch) ==
    /\ dsPc = "loop"
    /\ dsNext <= Len(dsBundles)
    /\ LET b == dsBundles[dsNext]
           highestStartedBatch == dsStream.highestStarted
           highestClosedBatch == dsStream.highestClosed
           finalize == NeedsFinalize(b.BatchNumber, highestStartedBatch, highestClosedBatch)
           f == IF finalize
                THEN finalizeLastBatchInDatastream(dsStream, highestStartedBatch,
                                                   GetFirstBlockNumber(b) - 1, fail)
                ELSE [stream |-> dsStream, err |-> "nil"]
           previousBlockBatchNumber == IF b.count = 1 THEN dbPreviousBatch ELSE b.BatchNumber
           entry == [type |-> "Block", bundle |-> dsNext, batch |-> b.BatchNumber,
                     block |-> GetLastBlockNumber(b), prevBatch |-> previousBlockBatchNumber,
                     first |-> GetFirstBlockNumber(b),
                     started |-> highestStartedBatch, closed |-> highestClosedBatch]
           written == WriteBlockWithBatchStartToStream(f.stream, entry)
           Return(stream, err) ==
               /\ dsPc' = "returned"
               /\ dsStream' = stream
               /\ dsErr' = err
               /\ UNCHANGED <<dsNext, dsChecked, dsProgress>>
       IN IF ~b.Valid
          THEN /\ dsChecked' = Append(dsChecked, dsNext)
               /\ dsPc' = "returned"
               /\ UNCHANGED <<dsNext, dsStream, dsProgress, dsErr>>
          ELSE IF fail \in {"GetHighestClosedBatch", "GetHighestBatchNumber"}
          THEN Return(dsStream, fail)
          ELSE IF f.err # "nil" THEN Return(f.stream, f.err)
          ELSE IF fail = "ReadBlockByNumber" THEN Return(f.stream, fail)
          ELSE IF b.count = 1 /\ fail = "CheckBatchNoByL2Block" THEN Return(f.stream, fail)
          ELSE IF b.count = 1 /\ fail = "notFound" THEN Return(f.stream, "nil")
          ELSE IF fail = "WriteBlockWithBatchStartToStream" THEN Return(f.stream, fail)
          ELSE IF fail = "SaveStageProgress" THEN Return(written, fail)
          ELSE /\ dsStream' = written
               /\ dsProgress' = GetLastBlockNumber(b)
               /\ dsChecked' = Append(dsChecked, dsNext)
               /\ dsNext' = dsNext + 1
               /\ UNCHANGED <<dsPc, dsErr>>
    /\ UNCHANGED <<dsBundles, exceptDs>>

\* the loop has visited every bundle
DsLoopEnd ==
    /\ dsPc = "loop"
    /\ dsNext > Len(dsBundles)
    /\ dsPc' = "returned"
    /\ UNCHANGED <<dsBundles, dsNext, dsChecked, dsStream, dsProgress, dsErr, exceptDs>>

InitDs ==
    /\ InitTreeVars
    /\ CallIdle
    /\ ScsIdle
    /\ MemIdle
    /\ BufIdle
    /\ AclIdle
    /\ GasIdle
    /\ TxIdle
    /\ BpIdle
    /\ RunIdle
    /\ dsBundles \in UNION {[1..n -> VerifierBundles] : n \in 0..MaxBundles}
    /\ dsPc = "loop"
    /\ dsNext = 1
    /\ dsChecked = <<>>
    /\ \E started \in {0, 1}, closed \in {0, 1} :
          /\ closed <= started
          /\ dsStream = [highestStarted |-> started, highestClosed |-> closed, entries |-> <<>>]
    /\ dsProgress = 0
    /\ dsErr = "nil"

NextDs ==
    \/ \E fail \in DsFailPoints, dbPreviousBatch \in {0} \cup DsBatchNos :
          DsIteration(fail, dbPreviousBatch)
    \/ DsLoopEnd

SpecDs == InitDs /\ [][NextDs]_vars

\* C26: a block of a valid bundle whose BatchNumber is above the highest
\* started batch of the stream, that batch not being closed, is written only
\* right after a batch end for the highest started batch at block
\* GetFirstBlockNumber()-1: no block of a newer batch is written while the
\* batch before is open.
C26_OpenBatchClosedFirst ==
    \A i \in 1..Len(dsStream.entries) :
        LET e == dsStream.entries[i]
        IN (/\ e.type = "Block"
            /\ e.batch > e.started
            /\ e.closed # e.started) =>
               /\ i > 1
               /\ dsStream.entries[i - 1] = [type |-> "BatchEnd", batch |-> e.started,
                                             block |-> e.first - 1]

\* batch 1 was open when the block of batch 2 came: batch end, then block
C26_Witness ==
    /\ Len(dsStream.entries) = 2
    /\ dsStream.entries[1] = [type |-> "BatchEnd", batch |-> 1, block |-> 1]
    /\ dsStream.entries[2].type = "Block"
    /\ dsStream.entries[2].batch = 2
    /\ dsStream.entries[2].started = 1
    /\ dsStream.entries[2].closed = 0
    /\ dsProgress = dsStream.entries[2].block

\* the invalid bundles, and the bundles up to and with the first of them
DsInvalid == {i \in 1..Len(dsBundles) : ~dsBundles[i].Valid}
DsPrefix ==
    IF DsInvalid = {} THEN 1..Len(dsBundles)
    ELSE 1..(CHOOSE i \in DsInvalid : \A j \in DsInvalid : i <= j)

\* the block of bundle i is in the stream
DsWritten(i) ==
    \E k \in 1..Len(dsStream.entries) :
        dsStream.entries[k].type = "Block" /\ dsStream.entries[k].bundle = i

DsSucceeded == dsPc = "returned" /\ dsErr = "nil"

\* C27: on success the bundles returned are, in input order, those up to and
\* with the first invalid one; every valid one of them was written and the
\* DataStream stage progress is the last block of the last of them; no
\* invalid bundle and no bundle after the first invalid one was written.
C27_StreamedPrefix ==
    DsSucceeded =>
        /\ dsChecked = [i \in DsPrefix |-> i]
        /\ \A i \in 1..Len(dsBundles) : DsWritten(i) <=> (i \in DsPrefix /\ dsBundles[i].Valid)
        /\ \A i \in DsPrefix :
              (dsBundles[i].Valid /\ \A j \in DsPrefix : j > i => ~dsBundles[j].Valid)
                  => dsProgress = GetLastBlockNumber(dsBundles[i])

\* C28: the call returns a nil error only if every valid bundle before the
\* first invalid one was written to the stream.
C28_NoSilentDrop ==
    DsSucceeded => \A i \in DsPrefix : dsBundles[i].Valid => DsWritten(i)

====
